---- MODULE Spec2Model ----
(***************************************************************************)
(* Model of ukr-learn: the text core, the vocabulary store, the           *)
(* VocabularyManager and the AnnotatedTextViewer:                          *)
(*   src/src/core/text_processor.py  (strip_accents, Token, TextProcessor) *)
(*                                                                         *)
(* A Python str is a sequence of Unicode code points; it is modelled as a  *)
(* TLA+ sequence of the code points' numbers.  Python offsets are 0-based, *)
(* with exclusive ends: text[a:b] is SubSeq(text, a + 1, b).               *)
(***************************************************************************)
EXTENDS Integers, Sequences, FiniteSets, TLC

VARIABLES
    text,            \* the str argument of the call
    known_words,     \* the known_words argument (a set of str)
    learning_words,  \* the learning_words argument (a set of str)
    pc,              \* the call in progress or just returned
    tokens,          \* value returned by tokenize(text)
    annotated,       \* value returned by annotate(text, known, learning)
    lines,           \* iter_lines_annotated: text.split('\n')
    line_idx,        \* iter_lines_annotated: number of lines consumed
    offset,          \* iter_lines_annotated: the running offset
    yielded,         \* iter_lines_annotated: the lists yielded so far
    stripped,        \* value returned by strip_accents(text)
    restripped,      \* value returned by strip_accents(stripped)
    words,           \* value returned by extract_words(text)
    word_count,      \* value returned by count_words(text)
    percentage,      \* value returned by calculate_known_percentage(text, known)
    unknown,         \* value returned by get_unknown_words(text, known, learning)
    db_words,        \* Database: the rows of table words
    db_last_write,   \* per stored key, the stage of the latest stage write ("none": no such write)
    db_last_op,      \* the name of the latest Database call
    db_last_args,    \* <<w, t>> of the latest set_word_translation(w, t), else <<>>
    info_cache,      \* Database: the rows of table word_info_cache
    info_saved,      \* per lookup key, the contents saved since the last clear
    info_result,     \* the argument and the value of the latest get_word_info
    info_cleared,    \* value returned by the latest clear_word_info_cache
    info_last_op,    \* the name of the latest word-info call
    vm_known_cache,  \* VocabularyManager._known_cache
    vm_learning_cache, \* VocabularyManager._learning_cache
    vm_result,       \* value returned by the latest VocabularyManager getter
    vm_last_op,      \* the name of the latest VocabularyManager call
    vm_last_args,    \* the arguments of the latest VocabularyManager call
    v_words,         \* AnnotatedTextViewer.words
    v_lines,         \* AnnotatedTextViewer.lines: the tokens of each TextLine
    cursor_pos,      \* AnnotatedTextViewer.cursor_pos
    selected_indices, \* AnnotatedTextViewer.selected_indices
    v_last_op        \* the name of the latest AnnotatedTextViewer call

\* the results of the derived and aggregating operations
agg_vars == <<words, word_count, percentage, unknown>>

\* the vocabulary store
db_vars == <<db_words, db_last_write, db_last_op, db_last_args>>

\* the word-info cache
info_vars == <<info_cache, info_saved, info_result, info_cleared, info_last_op>>

\* the VocabularyManager
vm_vars == <<vm_known_cache, vm_learning_cache, vm_result, vm_last_op, vm_last_args>>

\* the AnnotatedTextViewer
viewer_vars == <<v_words, v_lines, cursor_pos, selected_indices, v_last_op>>

\* the arguments and results of the text operations
core_vars == <<text, known_words, learning_words, pc, tokens, annotated,
               lines, line_idx, offset, yielded, stripped, restripped,
               words, word_count, percentage, unknown>>

vars == <<text, known_words, learning_words, pc, tokens, annotated,
          lines, line_idx, offset, yielded, stripped, restripped,
          words, word_count, percentage, unknown,
          db_words, db_last_write, db_last_op, db_last_args,
          info_cache, info_saved, info_result, info_cleared, info_last_op,
          vm_known_cache, vm_learning_cache, vm_result, vm_last_op, vm_last_args,
          v_words, v_lines, cursor_pos, selected_indices, v_last_op>>

-----------------------------------------------------------------------------
(* Bounds and the input universe                                           *)

\* longest input text explored
MaxLen == 3

\* code points of the characters the inputs are built from
CYR_I        == 1080   \* U+0438 CYRILLIC SMALL LETTER I
CYR_SHORT_I  == 1081   \* U+0439 CYRILLIC SMALL LETTER SHORT I (precomposed)
CYR_CAP_SHORT_I == 1049 \* U+0419 CYRILLIC CAPITAL LETTER SHORT I
ACUTE        == 769    \* U+0301 COMBINING ACUTE ACCENT (the stress mark)
APOSTROPHE   == 39     \* U+0027 APOSTROPHE
LATIN_A      == 97     \* U+0061 LATIN SMALL LETTER A
CYR_YI       == 1111   \* U+0457 CYRILLIC SMALL LETTER YI (precomposed)
NEWLINE      == 10     \* U+000A

Alphabet == {CYR_I, CYR_SHORT_I, CYR_CAP_SHORT_I, CYR_YI, ACUTE, APOSTROPHE, LATIN_A, NEWLINE}

RECURSIVE StringsUpTo(_)
StringsUpTo(n) ==
    IF n = 0 THEN {<<>>}
    ELSE LET shorter == StringsUpTo(n - 1)
         IN  shorter \cup {Append(s, c) : s \in {t \in shorter : Len(t) = n - 1}, c \in Alphabet}

\* two texts of three one-letter words, one word to a line
ThreeWordTexts ==
    {<<CYR_I, NEWLINE, CYR_I, NEWLINE, CYR_YI>>,
     <<CYR_I, NEWLINE, CYR_YI, NEWLINE, CYR_YI>>}

Texts == StringsUpTo(MaxLen) \cup ThreeWordTexts

\* the strings the caller's known / learning sets are drawn from:
\* two normalized-looking words and one piece of non-word text
Pool == {<<CYR_I>>, <<CYR_SHORT_I>>, <<LATIN_A>>}

\* longest word list given to bulk_set_stage
MaxBulk == 2

LATIN_CAP_A  == 65     \* U+0041 LATIN CAPITAL LETTER A

\* the word arguments given to the Database: stress-marked, lowercase,
\* uppercase, Latin
DbWordArgs == {<<CYR_I, ACUTE>>, <<CYR_SHORT_I>>, <<CYR_CAP_SHORT_I>>, <<LATIN_CAP_A>>}

\* SQL NULL / Python None
None == "None"

SPACE        == 32     \* U+0020 SPACE

\* the word_or_phrase arguments given to the word-info cache: uppercase,
\* with leading or trailing whitespace, and a phrase with a space inside
InfoArgs == {<<LATIN_CAP_A>>, <<SPACE, LATIN_A>>, <<LATIN_A, NEWLINE>>,
             <<CYR_CAP_SHORT_I, SPACE, LATIN_A, SPACE>>}

InfoTypes == {"word", "phrase"}
Contents == {"c1", "c2"}

\* most saves of one lookup key between two clears
MaxSaves == 2

CYR_UKR_I    == 1110   \* U+0456 CYRILLIC SMALL LETTER BYELORUSSIAN-UKRAINIAN I

\* the word arguments given to the VocabularyManager's writers: two
\* normalized forms and a stress-marked spelling
VmWordArgs == {<<CYR_I>>, <<CYR_UKR_I>>, <<CYR_I, ACUTE>>}

\* the word arguments given to VocabularyManager.get_stage
VmQueryArgs == VmWordArgs \cup {<<CYR_CAP_SHORT_I>>}

\* the word lists given to VocabularyManager.bulk_set_stage
VmBulkArgs == {<<>>, <<<<CYR_I>>>>, <<<<CYR_UKR_I>>, <<CYR_I>>>>,
               <<<<CYR_I>>, <<CYR_I>>>>, <<<<CYR_UKR_I>>, <<CYR_I, ACUTE>>>>}

\* longest text given to the AnnotatedTextViewer
MaxViewLen == 5

\* the texts given to the AnnotatedTextViewer: a letter, a word separator
\* and the line separator
RECURSIVE ViewerStringsUpTo(_)
ViewerStringsUpTo(n) ==
    IF n = 0 THEN {<<>>}
    ELSE LET shorter == ViewerStringsUpTo(n - 1)
         IN  shorter \cup {Append(t, c) : t \in {u \in shorter : Len(u) = n - 1},
                                          c \in {CYR_I, LATIN_A, NEWLINE}}

ViewerTexts == ViewerStringsUpTo(MaxViewLen)

\* the known_words given to the AnnotatedTextViewer (learning_words is empty)
ViewerKnownArgs == {{<<CYR_I>>}}

\* the events urwid passes to mouse_event
MouseEvents == {"mouse press", "mouse release"}

Directions == {"left", "backward", "right", "forward", "up", "down",
               "line_start", "line_end"}

\* the texts on screen while the vocabulary changes
VmTexts == {<<CYR_I, ACUTE, NEWLINE, CYR_YI>>, <<CYR_CAP_SHORT_I, LATIN_A, CYR_I>>}

Stages == {"new", "learning", "known"}

\* the translation arguments; the callers of these runs give no notes
Translations == {"t1", "t2"}
NotesArgs == {None}

RECURSIVE ListsUpTo(_, _)
ListsUpTo(S, n) ==
    IF n = 0 THEN {<<>>}
    ELSE LET shorter == ListsUpTo(S, n - 1)
         IN  shorter \cup {Append(l, x) : l \in {t \in shorter : Len(t) = n - 1}, x \in S}

-----------------------------------------------------------------------------
(* unicodedata and str primitives, on the code points of the model         *)

\* The tables below are those of the Unicode Character Database that
\* unicodedata reads, for the code points below U+0530 and U+1E00..U+1FFF
\* (Latin, Greek, Cyrillic and the combining marks) and their composites.

\* unicodedata.category(c) == 'Mn'
IsMn(c) == c \in 768..879 \/ c \in 1155..1159

\* unicodedata.combining(c) for c in U+0300..U+036F, indexed by c - 767
CombiningClassTable == <<
    230, 230, 230, 230, 230, 230, 230, 230, 230, 230, 230, 230, 230, 230,
    230, 230, 230, 230, 230, 230, 230, 232, 220, 220, 220, 220, 232, 216,
    220, 220, 220, 220, 220, 202, 202, 220, 220, 220, 220, 202, 202, 220,
    220, 220, 220, 220, 220, 220, 220, 220, 220, 220, 1, 1, 1, 1, 1, 220,
    220, 220, 220, 230, 230, 230, 230, 230, 230, 230, 230, 240, 230, 220,
    220, 220, 230, 230, 230, 220, 220, 0, 230, 230, 230, 220, 220, 220, 220,
    230, 232, 220, 220, 230, 233, 234, 234, 233, 234, 234, 233, 230, 230,
    230, 230, 230, 230, 230, 230, 230, 230, 230, 230, 230
>>

\* unicodedata.combining(c): the canonical combining class
Ccc(c) ==
    IF c \in 768..879 THEN CombiningClassTable[c - 767]
    ELSE IF c \in 1155..1159 THEN 230
    ELSE 0

\* full canonical decomposition of U+00C0..U+052F, indexed by c - 191; <<>>
\* for a code point that has none
DecompositionTableLow == <<
    <<65, 768>>, <<65, 769>>, <<65, 770>>, <<65, 771>>, <<65, 776>>, <<65,
    778>>, <<>>, <<67, 807>>, <<69, 768>>, <<69, 769>>, <<69, 770>>, <<69,
    776>>, <<73, 768>>, <<73, 769>>, <<73, 770>>, <<73, 776>>, <<>>, <<78,
    771>>, <<79, 768>>, <<79, 769>>, <<79, 770>>, <<79, 771>>, <<79, 776>>,
    <<>>, <<>>, <<85, 768>>, <<85, 769>>, <<85, 770>>, <<85, 776>>, <<89,
    769>>, <<>>, <<>>, <<97, 768>>, <<97, 769>>, <<97, 770>>, <<97, 771>>,
    <<97, 776>>, <<97, 778>>, <<>>, <<99, 807>>, <<101, 768>>, <<101, 769>>,
    <<101, 770>>, <<101, 776>>, <<105, 768>>, <<105, 769>>, <<105, 770>>,
    <<105, 776>>, <<>>, <<110, 771>>, <<111, 768>>, <<111, 769>>, <<111,
    770>>, <<111, 771>>, <<111, 776>>, <<>>, <<>>, <<117, 768>>, <<117,
    769>>, <<117, 770>>, <<117, 776>>, <<121, 769>>, <<>>, <<121, 776>>,
    <<65, 772>>, <<97, 772>>, <<65, 774>>, <<97, 774>>, <<65, 808>>, <<97,
    808>>, <<67, 769>>, <<99, 769>>, <<67, 770>>, <<99, 770>>, <<67, 775>>,
    <<99, 775>>, <<67, 780>>, <<99, 780>>, <<68, 780>>, <<100, 780>>, <<>>,
    <<>>, <<69, 772>>, <<101, 772>>, <<69, 774>>, <<101, 774>>, <<69, 775>>,
    <<101, 775>>, <<69, 808>>, <<101, 808>>, <<69, 780>>, <<101, 780>>,
    <<71, 770>>, <<103, 770>>, <<71, 774>>, <<103, 774>>, <<71, 775>>,
    <<103, 775>>, <<71, 807>>, <<103, 807>>, <<72, 770>>, <<104, 770>>,
    <<>>, <<>>, <<73, 771>>, <<105, 771>>, <<73, 772>>, <<105, 772>>, <<73,
    774>>, <<105, 774>>, <<73, 808>>, <<105, 808>>, <<73, 775>>, <<>>, <<>>,
    <<>>, <<74, 770>>, <<106, 770>>, <<75, 807>>, <<107, 807>>, <<>>, <<76,
    769>>, <<108, 769>>, <<76, 807>>, <<108, 807>>, <<76, 780>>, <<108,
    780>>, <<>>, <<>>, <<>>, <<>>, <<78, 769>>, <<110, 769>>, <<78, 807>>,
    <<110, 807>>, <<78, 780>>, <<110, 780>>, <<>>, <<>>, <<>>, <<79, 772>>,
    <<111, 772>>, <<79, 774>>, <<111, 774>>, <<79, 779>>, <<111, 779>>,
    <<>>, <<>>, <<82, 769>>, <<114, 769>>, <<82, 807>>, <<114, 807>>, <<82,
    780>>, <<114, 780>>, <<83, 769>>, <<115, 769>>, <<83, 770>>, <<115,
    770>>, <<83, 807>>, <<115, 807>>, <<83, 780>>, <<115, 780>>, <<84,
    807>>, <<116, 807>>, <<84, 780>>, <<116, 780>>, <<>>, <<>>, <<85, 771>>,
    <<117, 771>>, <<85, 772>>, <<117, 772>>, <<85, 774>>, <<117, 774>>,
    <<85, 778>>, <<117, 778>>, <<85, 779>>, <<117, 779>>, <<85, 808>>,
    <<117, 808>>, <<87, 770>>, <<119, 770>>, <<89, 770>>, <<121, 770>>,
    <<89, 776>>, <<90, 769>>, <<122, 769>>, <<90, 775>>, <<122, 775>>, <<90,
    780>>, <<122, 780>>, <<>>, <<>>, <<>>, <<>>, <<>>, <<>>, <<>>, <<>>,
    <<>>, <<>>, <<>>, <<>>, <<>>, <<>>, <<>>, <<>>, <<>>, <<>>, <<>>, <<>>,
    <<>>, <<>>, <<>>, <<>>, <<>>, <<>>, <<>>, <<>>, <<>>, <<>>, <<>>, <<>>,
    <<>>, <<79, 795>>, <<111, 795>>, <<>>, <<>>, <<>>, <<>>, <<>>, <<>>,
    <<>>, <<>>, <<>>, <<>>, <<>>, <<>>, <<>>, <<85, 795>>, <<117, 795>>,
    <<>>, <<>>, <<>>, <<>>, <<>>, <<>>, <<>>, <<>>, <<>>, <<>>, <<>>, <<>>,
    <<>>, <<>>, <<>>, <<>>, <<>>, <<>>, <<>>, <<>>, <<>>, <<>>, <<>>, <<>>,
    <<>>, <<>>, <<>>, <<>>, <<65, 780>>, <<97, 780>>, <<73, 780>>, <<105,
    780>>, <<79, 780>>, <<111, 780>>, <<85, 780>>, <<117, 780>>, <<85, 776,
    772>>, <<117, 776, 772>>, <<85, 776, 769>>, <<117, 776, 769>>, <<85,
    776, 780>>, <<117, 776, 780>>, <<85, 776, 768>>, <<117, 776, 768>>,
    <<>>, <<65, 776, 772>>, <<97, 776, 772>>, <<65, 775, 772>>, <<97, 775,
    772>>, <<198, 772>>, <<230, 772>>, <<>>, <<>>, <<71, 780>>, <<103,
    780>>, <<75, 780>>, <<107, 780>>, <<79, 808>>, <<111, 808>>, <<79, 808,
    772>>, <<111, 808, 772>>, <<439, 780>>, <<658, 780>>, <<106, 780>>,
    <<>>, <<>>, <<>>, <<71, 769>>, <<103, 769>>, <<>>, <<>>, <<78, 768>>,
    <<110, 768>>, <<65, 778, 769>>, <<97, 778, 769>>, <<198, 769>>, <<230,
    769>>, <<216, 769>>, <<248, 769>>, <<65, 783>>, <<97, 783>>, <<65,
    785>>, <<97, 785>>, <<69, 783>>, <<101, 783>>, <<69, 785>>, <<101,
    785>>, <<73, 783>>, <<105, 783>>, <<73, 785>>, <<105, 785>>, <<79,
    783>>, <<111, 783>>, <<79, 785>>, <<111, 785>>, <<82, 783>>, <<114,
    783>>, <<82, 785>>, <<114, 785>>, <<85, 783>>, <<117, 783>>, <<85,
    785>>, <<117, 785>>, <<83, 806>>, <<115, 806>>, <<84, 806>>, <<116,
    806>>, <<>>, <<>>, <<72, 780>>, <<104, 780>>, <<>>, <<>>, <<>>, <<>>,
    <<>>, <<>>, <<65, 775>>, <<97, 775>>, <<69, 807>>, <<101, 807>>, <<79,
    776, 772>>, <<111, 776, 772>>, <<79, 771, 772>>, <<111, 771, 772>>,
    <<79, 775>>, <<111, 775>>, <<79, 775, 772>>, <<111, 775, 772>>, <<89,
    772>>, <<121, 772>>, <<>>, <<>>, <<>>, <<>>, <<>>, <<>>, <<>>, <<>>,
    <<>>, <<>>, <<>>, <<>>, <<>>, <<>>, <<>>, <<>>, <<>>, <<>>, <<>>, <<>>,
    <<>>, <<>>, <<>>, <<>>, <<>>, <<>>, <<>>, <<>>, <<>>, <<>>, <<>>, <<>>,
    <<>>, <<>>, <<>>, <<>>, <<>>, <<>>, <<>>, <<>>, <<>>, <<>>, <<>>, <<>>,
    <<>>, <<>>, <<>>, <<>>, <<>>, <<>>, <<>>, <<>>, <<>>, <<>>, <<>>, <<>>,
    <<>>, <<>>, <<>>, <<>>, <<>>, <<>>, <<>>, <<>>, <<>>, <<>>, <<>>, <<>>,
    <<>>, <<>>, <<>>, <<>>, <<>>, <<>>, <<>>, <<>>, <<>>, <<>>, <<>>, <<>>,
    <<>>, <<>>, <<>>, <<>>, <<>>, <<>>, <<>>, <<>>, <<>>, <<>>, <<>>, <<>>,
    <<>>, <<>>, <<>>, <<>>, <<>>, <<>>, <<>>, <<>>, <<>>, <<>>, <<>>, <<>>,
    <<>>, <<>>, <<>>, <<>>, <<>>, <<>>, <<>>, <<>>, <<>>, <<>>, <<>>, <<>>,
    <<>>, <<>>, <<>>, <<>>, <<>>, <<>>, <<>>, <<>>, <<>>, <<>>, <<>>, <<>>,
    <<>>, <<>>, <<>>, <<>>, <<>>, <<>>, <<>>, <<>>, <<>>, <<>>, <<>>, <<>>,
    <<>>, <<>>, <<>>, <<>>, <<>>, <<>>, <<>>, <<>>, <<>>, <<>>, <<>>, <<>>,
    <<>>, <<>>, <<>>, <<>>, <<>>, <<>>, <<>>, <<>>, <<>>, <<>>, <<>>, <<>>,
    <<>>, <<>>, <<>>, <<>>, <<>>, <<>>, <<>>, <<>>, <<>>, <<>>, <<>>, <<>>,
    <<>>, <<>>, <<>>, <<>>, <<>>, <<>>, <<>>, <<>>, <<>>, <<>>, <<>>, <<>>,
    <<>>, <<>>, <<>>, <<>>, <<>>, <<>>, <<>>, <<>>, <<>>, <<>>, <<>>, <<>>,
    <<>>, <<>>, <<>>, <<>>, <<>>, <<>>, <<>>, <<>>, <<>>, <<>>, <<>>, <<>>,
    <<>>, <<>>, <<>>, <<>>, <<>>, <<>>, <<>>, <<>>, <<>>, <<>>, <<>>, <<>>,
    <<>>, <<>>, <<>>, <<>>, <<>>, <<>>, <<>>, <<>>, <<>>, <<>>, <<>>, <<>>,
    <<>>, <<>>, <<>>, <<>>, <<>>, <<>>, <<>>, <<>>, <<>>, <<>>, <<>>, <<>>,
    <<>>, <<>>, <<>>, <<>>, <<>>, <<>>, <<>>, <<>>, <<>>, <<>>, <<>>, <<>>,
    <<>>, <<>>, <<>>, <<>>, <<>>, <<>>, <<>>, <<>>, <<768>>, <<769>>, <<>>,
    <<787>>, <<776, 769>>, <<>>, <<>>, <<>>, <<>>, <<>>, <<>>, <<>>, <<>>,
    <<>>, <<>>, <<>>, <<>>, <<>>, <<>>, <<>>, <<>>, <<>>, <<>>, <<>>, <<>>,
    <<>>, <<>>, <<>>, <<>>, <<>>, <<>>, <<>>, <<>>, <<>>, <<>>, <<>>, <<>>,
    <<>>, <<>>, <<>>, <<>>, <<>>, <<>>, <<>>, <<>>, <<>>, <<>>, <<>>, <<>>,
    <<>>, <<>>, <<>>, <<697>>, <<>>, <<>>, <<>>, <<>>, <<>>, <<>>, <<>>,
    <<>>, <<>>, <<59>>, <<>>, <<>>, <<>>, <<>>, <<>>, <<>>, <<168, 769>>,
    <<913, 769>>, <<183>>, <<917, 769>>, <<919, 769>>, <<921, 769>>, <<>>,
    <<927, 769>>, <<>>, <<933, 769>>, <<937, 769>>, <<953, 776, 769>>, <<>>,
    <<>>, <<>>, <<>>, <<>>, <<>>, <<>>, <<>>, <<>>, <<>>, <<>>, <<>>, <<>>,
    <<>>, <<>>, <<>>, <<>>, <<>>, <<>>, <<>>, <<>>, <<>>, <<>>, <<>>, <<>>,
    <<921, 776>>, <<933, 776>>, <<945, 769>>, <<949, 769>>, <<951, 769>>,
    <<953, 769>>, <<965, 776, 769>>, <<>>, <<>>, <<>>, <<>>, <<>>, <<>>,
    <<>>, <<>>, <<>>, <<>>, <<>>, <<>>, <<>>, <<>>, <<>>, <<>>, <<>>, <<>>,
    <<>>, <<>>, <<>>, <<>>, <<>>, <<>>, <<>>, <<953, 776>>, <<965, 776>>,
    <<959, 769>>, <<965, 769>>, <<969, 769>>, <<>>, <<>>, <<>>, <<>>, <<978,
    769>>, <<978, 776>>, <<>>, <<>>, <<>>, <<>>, <<>>, <<>>, <<>>, <<>>,
    <<>>, <<>>, <<>>, <<>>, <<>>, <<>>, <<>>, <<>>, <<>>, <<>>, <<>>, <<>>,
    <<>>, <<>>, <<>>, <<>>, <<>>, <<>>, <<>>, <<>>, <<>>, <<>>, <<>>, <<>>,
    <<>>, <<>>, <<>>, <<>>, <<>>, <<>>, <<>>, <<>>, <<>>, <<>>, <<>>,
    <<1045, 768>>, <<1045, 776>>, <<>>, <<1043, 769>>, <<>>, <<>>, <<>>,
    <<1030, 776>>, <<>>, <<>>, <<>>, <<>>, <<1050, 769>>, <<1048, 768>>,
    <<1059, 774>>, <<>>, <<>>, <<>>, <<>>, <<>>, <<>>, <<>>, <<>>, <<>>,
    <<>>, <<1048, 774>>, <<>>, <<>>, <<>>, <<>>, <<>>, <<>>, <<>>, <<>>,
    <<>>, <<>>, <<>>, <<>>, <<>>, <<>>, <<>>, <<>>, <<>>, <<>>, <<>>, <<>>,
    <<>>, <<>>, <<>>, <<>>, <<>>, <<>>, <<>>, <<>>, <<>>, <<>>, <<>>,
    <<1080, 774>>, <<>>, <<>>, <<>>, <<>>, <<>>, <<>>, <<>>, <<>>, <<>>,
    <<>>, <<>>, <<>>, <<>>, <<>>, <<>>, <<>>, <<>>, <<>>, <<>>, <<>>, <<>>,
    <<>>, <<1077, 768>>, <<1077, 776>>, <<>>, <<1075, 769>>, <<>>, <<>>,
    <<>>, <<1110, 776>>, <<>>, <<>>, <<>>, <<>>, <<1082, 769>>, <<1080,
    768>>, <<1091, 774>>, <<>>, <<>>, <<>>, <<>>, <<>>, <<>>, <<>>, <<>>,
    <<>>, <<>>, <<>>, <<>>, <<>>, <<>>, <<>>, <<>>, <<>>, <<>>, <<>>, <<>>,
    <<>>, <<>>, <<>>, <<1140, 783>>, <<1141, 783>>, <<>>, <<>>, <<>>, <<>>,
    <<>>, <<>>, <<>>, <<>>, <<>>, <<>>, <<>>, <<>>, <<>>, <<>>, <<>>, <<>>,
    <<>>, <<>>, <<>>, <<>>, <<>>, <<>>, <<>>, <<>>, <<>>, <<>>, <<>>, <<>>,
    <<>>, <<>>, <<>>, <<>>, <<>>, <<>>, <<>>, <<>>, <<>>, <<>>, <<>>, <<>>,
    <<>>, <<>>, <<>>, <<>>, <<>>, <<>>, <<>>, <<>>, <<>>, <<>>, <<>>, <<>>,
    <<>>, <<>>, <<>>, <<>>, <<>>, <<>>, <<>>, <<>>, <<>>, <<>>, <<>>, <<>>,
    <<>>, <<>>, <<>>, <<>>, <<>>, <<>>, <<>>, <<>>, <<>>, <<1046, 774>>,
    <<1078, 774>>, <<>>, <<>>, <<>>, <<>>, <<>>, <<>>, <<>>, <<>>, <<>>,
    <<>>, <<>>, <<>>, <<>>, <<1040, 774>>, <<1072, 774>>, <<1040, 776>>,
    <<1072, 776>>, <<>>, <<>>, <<1045, 774>>, <<1077, 774>>, <<>>, <<>>,
    <<1240, 776>>, <<1241, 776>>, <<1046, 776>>, <<1078, 776>>, <<1047,
    776>>, <<1079, 776>>, <<>>, <<>>, <<1048, 772>>, <<1080, 772>>, <<1048,
    776>>, <<1080, 776>>, <<1054, 776>>, <<1086, 776>>, <<>>, <<>>, <<1256,
    776>>, <<1257, 776>>, <<1069, 776>>, <<1101, 776>>, <<1059, 772>>,
    <<1091, 772>>, <<1059, 776>>, <<1091, 776>>, <<1059, 779>>, <<1091,
    779>>, <<1063, 776>>, <<1095, 776>>, <<>>, <<>>, <<1067, 776>>, <<1099,
    776>>, <<>>, <<>>, <<>>, <<>>, <<>>, <<>>, <<>>, <<>>, <<>>, <<>>, <<>>,
    <<>>, <<>>, <<>>, <<>>, <<>>, <<>>, <<>>, <<>>, <<>>, <<>>, <<>>, <<>>,
    <<>>, <<>>, <<>>, <<>>, <<>>, <<>>, <<>>, <<>>, <<>>, <<>>, <<>>, <<>>,
    <<>>, <<>>, <<>>, <<>>, <<>>, <<>>, <<>>, <<>>, <<>>, <<>>, <<>>, <<>>,
    <<>>, <<>>, <<>>, <<>>, <<>>, <<>>, <<>>
>>

\* full canonical decomposition of U+1E00..U+1FFF, indexed by c - 7679
DecompositionTableHigh == <<
    <<65, 805>>, <<97, 805>>, <<66, 775>>, <<98, 775>>, <<66, 803>>, <<98,
    803>>, <<66, 817>>, <<98, 817>>, <<67, 807, 769>>, <<99, 807, 769>>,
    <<68, 775>>, <<100, 775>>, <<68, 803>>, <<100, 803>>, <<68, 817>>,
    <<100, 817>>, <<68, 807>>, <<100, 807>>, <<68, 813>>, <<100, 813>>,
    <<69, 772, 768>>, <<101, 772, 768>>, <<69, 772, 769>>, <<101, 772,
    769>>, <<69, 813>>, <<101, 813>>, <<69, 816>>, <<101, 816>>, <<69, 807,
    774>>, <<101, 807, 774>>, <<70, 775>>, <<102, 775>>, <<71, 772>>, <<103,
    772>>, <<72, 775>>, <<104, 775>>, <<72, 803>>, <<104, 803>>, <<72,
    776>>, <<104, 776>>, <<72, 807>>, <<104, 807>>, <<72, 814>>, <<104,
    814>>, <<73, 816>>, <<105, 816>>, <<73, 776, 769>>, <<105, 776, 769>>,
    <<75, 769>>, <<107, 769>>, <<75, 803>>, <<107, 803>>, <<75, 817>>,
    <<107, 817>>, <<76, 803>>, <<108, 803>>, <<76, 803, 772>>, <<108, 803,
    772>>, <<76, 817>>, <<108, 817>>, <<76, 813>>, <<108, 813>>, <<77,
    769>>, <<109, 769>>, <<77, 775>>, <<109, 775>>, <<77, 803>>, <<109,
    803>>, <<78, 775>>, <<110, 775>>, <<78, 803>>, <<110, 803>>, <<78,
    817>>, <<110, 817>>, <<78, 813>>, <<110, 813>>, <<79, 771, 769>>, <<111,
    771, 769>>, <<79, 771, 776>>, <<111, 771, 776>>, <<79, 772, 768>>,
    <<111, 772, 768>>, <<79, 772, 769>>, <<111, 772, 769>>, <<80, 769>>,
    <<112, 769>>, <<80, 775>>, <<112, 775>>, <<82, 775>>, <<114, 775>>,
    <<82, 803>>, <<114, 803>>, <<82, 803, 772>>, <<114, 803, 772>>, <<82,
    817>>, <<114, 817>>, <<83, 775>>, <<115, 775>>, <<83, 803>>, <<115,
    803>>, <<83, 769, 775>>, <<115, 769, 775>>, <<83, 780, 775>>, <<115,
    780, 775>>, <<83, 803, 775>>, <<115, 803, 775>>, <<84, 775>>, <<116,
    775>>, <<84, 803>>, <<116, 803>>, <<84, 817>>, <<116, 817>>, <<84,
    813>>, <<116, 813>>, <<85, 804>>, <<117, 804>>, <<85, 816>>, <<117,
    816>>, <<85, 813>>, <<117, 813>>, <<85, 771, 769>>, <<117, 771, 769>>,
    <<85, 772, 776>>, <<117, 772, 776>>, <<86, 771>>, <<118, 771>>, <<86,
    803>>, <<118, 803>>, <<87, 768>>, <<119, 768>>, <<87, 769>>, <<119,
    769>>, <<87, 776>>, <<119, 776>>, <<87, 775>>, <<119, 775>>, <<87,
    803>>, <<119, 803>>, <<88, 775>>, <<120, 775>>, <<88, 776>>, <<120,
    776>>, <<89, 775>>, <<121, 775>>, <<90, 770>>, <<122, 770>>, <<90,
    803>>, <<122, 803>>, <<90, 817>>, <<122, 817>>, <<104, 817>>, <<116,
    776>>, <<119, 778>>, <<121, 778>>, <<>>, <<383, 775>>, <<>>, <<>>, <<>>,
    <<>>, <<65, 803>>, <<97, 803>>, <<65, 777>>, <<97, 777>>, <<65, 770,
    769>>, <<97, 770, 769>>, <<65, 770, 768>>, <<97, 770, 768>>, <<65, 770,
    777>>, <<97, 770, 777>>, <<65, 770, 771>>, <<97, 770, 771>>, <<65, 803,
    770>>, <<97, 803, 770>>, <<65, 774, 769>>, <<97, 774, 769>>, <<65, 774,
    768>>, <<97, 774, 768>>, <<65, 774, 777>>, <<97, 774, 777>>, <<65, 774,
    771>>, <<97, 774, 771>>, <<65, 803, 774>>, <<97, 803, 774>>, <<69,
    803>>, <<101, 803>>, <<69, 777>>, <<101, 777>>, <<69, 771>>, <<101,
    771>>, <<69, 770, 769>>, <<101, 770, 769>>, <<69, 770, 768>>, <<101,
    770, 768>>, <<69, 770, 777>>, <<101, 770, 777>>, <<69, 770, 771>>,
    <<101, 770, 771>>, <<69, 803, 770>>, <<101, 803, 770>>, <<73, 777>>,
    <<105, 777>>, <<73, 803>>, <<105, 803>>, <<79, 803>>, <<111, 803>>,
    <<79, 777>>, <<111, 777>>, <<79, 770, 769>>, <<111, 770, 769>>, <<79,
    770, 768>>, <<111, 770, 768>>, <<79, 770, 777>>, <<111, 770, 777>>,
    <<79, 770, 771>>, <<111, 770, 771>>, <<79, 803, 770>>, <<111, 803,
    770>>, <<79, 795, 769>>, <<111, 795, 769>>, <<79, 795, 768>>, <<111,
    795, 768>>, <<79, 795, 777>>, <<111, 795, 777>>, <<79, 795, 771>>,
    <<111, 795, 771>>, <<79, 795, 803>>, <<111, 795, 803>>, <<85, 803>>,
    <<117, 803>>, <<85, 777>>, <<117, 777>>, <<85, 795, 769>>, <<117, 795,
    769>>, <<85, 795, 768>>, <<117, 795, 768>>, <<85, 795, 777>>, <<117,
    795, 777>>, <<85, 795, 771>>, <<117, 795, 771>>, <<85, 795, 803>>,
    <<117, 795, 803>>, <<89, 768>>, <<121, 768>>, <<89, 803>>, <<121, 803>>,
    <<89, 777>>, <<121, 777>>, <<89, 771>>, <<121, 771>>, <<>>, <<>>, <<>>,
    <<>>, <<>>, <<>>, <<945, 787>>, <<945, 788>>, <<945, 787, 768>>, <<945,
    788, 768>>, <<945, 787, 769>>, <<945, 788, 769>>, <<945, 787, 834>>,
    <<945, 788, 834>>, <<913, 787>>, <<913, 788>>, <<913, 787, 768>>, <<913,
    788, 768>>, <<913, 787, 769>>, <<913, 788, 769>>, <<913, 787, 834>>,
    <<913, 788, 834>>, <<949, 787>>, <<949, 788>>, <<949, 787, 768>>, <<949,
    788, 768>>, <<949, 787, 769>>, <<949, 788, 769>>, <<>>, <<>>, <<917,
    787>>, <<917, 788>>, <<917, 787, 768>>, <<917, 788, 768>>, <<917, 787,
    769>>, <<917, 788, 769>>, <<>>, <<>>, <<951, 787>>, <<951, 788>>, <<951,
    787, 768>>, <<951, 788, 768>>, <<951, 787, 769>>, <<951, 788, 769>>,
    <<951, 787, 834>>, <<951, 788, 834>>, <<919, 787>>, <<919, 788>>, <<919,
    787, 768>>, <<919, 788, 768>>, <<919, 787, 769>>, <<919, 788, 769>>,
    <<919, 787, 834>>, <<919, 788, 834>>, <<953, 787>>, <<953, 788>>, <<953,
    787, 768>>, <<953, 788, 768>>, <<953, 787, 769>>, <<953, 788, 769>>,
    <<953, 787, 834>>, <<953, 788, 834>>, <<921, 787>>, <<921, 788>>, <<921,
    787, 768>>, <<921, 788, 768>>, <<921, 787, 769>>, <<921, 788, 769>>,
    <<921, 787, 834>>, <<921, 788, 834>>, <<959, 787>>, <<959, 788>>, <<959,
    787, 768>>, <<959, 788, 768>>, <<959, 787, 769>>, <<959, 788, 769>>,
    <<>>, <<>>, <<927, 787>>, <<927, 788>>, <<927, 787, 768>>, <<927, 788,
    768>>, <<927, 787, 769>>, <<927, 788, 769>>, <<>>, <<>>, <<965, 787>>,
    <<965, 788>>, <<965, 787, 768>>, <<965, 788, 768>>, <<965, 787, 769>>,
    <<965, 788, 769>>, <<965, 787, 834>>, <<965, 788, 834>>, <<>>, <<933,
    788>>, <<>>, <<933, 788, 768>>, <<>>, <<933, 788, 769>>, <<>>, <<933,
    788, 834>>, <<969, 787>>, <<969, 788>>, <<969, 787, 768>>, <<969, 788,
    768>>, <<969, 787, 769>>, <<969, 788, 769>>, <<969, 787, 834>>, <<969,
    788, 834>>, <<937, 787>>, <<937, 788>>, <<937, 787, 768>>, <<937, 788,
    768>>, <<937, 787, 769>>, <<937, 788, 769>>, <<937, 787, 834>>, <<937,
    788, 834>>, <<945, 768>>, <<945, 769>>, <<949, 768>>, <<949, 769>>,
    <<951, 768>>, <<951, 769>>, <<953, 768>>, <<953, 769>>, <<959, 768>>,
    <<959, 769>>, <<965, 768>>, <<965, 769>>, <<969, 768>>, <<969, 769>>,
    <<>>, <<>>, <<945, 787, 837>>, <<945, 788, 837>>, <<945, 787, 768,
    837>>, <<945, 788, 768, 837>>, <<945, 787, 769, 837>>, <<945, 788, 769,
    837>>, <<945, 787, 834, 837>>, <<945, 788, 834, 837>>, <<913, 787,
    837>>, <<913, 788, 837>>, <<913, 787, 768, 837>>, <<913, 788, 768,
    837>>, <<913, 787, 769, 837>>, <<913, 788, 769, 837>>, <<913, 787, 834,
    837>>, <<913, 788, 834, 837>>, <<951, 787, 837>>, <<951, 788, 837>>,
    <<951, 787, 768, 837>>, <<951, 788, 768, 837>>, <<951, 787, 769, 837>>,
    <<951, 788, 769, 837>>, <<951, 787, 834, 837>>, <<951, 788, 834, 837>>,
    <<919, 787, 837>>, <<919, 788, 837>>, <<919, 787, 768, 837>>, <<919,
    788, 768, 837>>, <<919, 787, 769, 837>>, <<919, 788, 769, 837>>, <<919,
    787, 834, 837>>, <<919, 788, 834, 837>>, <<969, 787, 837>>, <<969, 788,
    837>>, <<969, 787, 768, 837>>, <<969, 788, 768, 837>>, <<969, 787, 769,
    837>>, <<969, 788, 769, 837>>, <<969, 787, 834, 837>>, <<969, 788, 834,
    837>>, <<937, 787, 837>>, <<937, 788, 837>>, <<937, 787, 768, 837>>,
    <<937, 788, 768, 837>>, <<937, 787, 769, 837>>, <<937, 788, 769, 837>>,
    <<937, 787, 834, 837>>, <<937, 788, 834, 837>>, <<945, 774>>, <<945,
    772>>, <<945, 768, 837>>, <<945, 837>>, <<945, 769, 837>>, <<>>, <<945,
    834>>, <<945, 834, 837>>, <<913, 774>>, <<913, 772>>, <<913, 768>>,
    <<913, 769>>, <<913, 837>>, <<>>, <<953>>, <<>>, <<>>, <<168, 834>>,
    <<951, 768, 837>>, <<951, 837>>, <<951, 769, 837>>, <<>>, <<951, 834>>,
    <<951, 834, 837>>, <<917, 768>>, <<917, 769>>, <<919, 768>>, <<919,
    769>>, <<919, 837>>, <<8127, 768>>, <<8127, 769>>, <<8127, 834>>, <<953,
    774>>, <<953, 772>>, <<953, 776, 768>>, <<953, 776, 769>>, <<>>, <<>>,
    <<953, 834>>, <<953, 776, 834>>, <<921, 774>>, <<921, 772>>, <<921,
    768>>, <<921, 769>>, <<>>, <<8190, 768>>, <<8190, 769>>, <<8190, 834>>,
    <<965, 774>>, <<965, 772>>, <<965, 776, 768>>, <<965, 776, 769>>, <<961,
    787>>, <<961, 788>>, <<965, 834>>, <<965, 776, 834>>, <<933, 774>>,
    <<933, 772>>, <<933, 768>>, <<933, 769>>, <<929, 788>>, <<168, 768>>,
    <<168, 769>>, <<96>>, <<>>, <<>>, <<969, 768, 837>>, <<969, 837>>,
    <<969, 769, 837>>, <<>>, <<969, 834>>, <<969, 834, 837>>, <<927, 768>>,
    <<927, 769>>, <<937, 768>>, <<937, 769>>, <<937, 837>>, <<180>>, <<>>,
    <<>>
>>

\* full canonical decomposition of one code point
Decomposition(c) ==
    LET d == IF c \in 192..1327 THEN DecompositionTableLow[c - 191]
             ELSE IF c \in 7680..8191 THEN DecompositionTableHigh[c - 7679]
             ELSE CASE c = 8800 -> <<61, 824>>
                    [] c = 8814 -> <<60, 824>>
                    [] c = 8815 -> <<62, 824>>
                    [] OTHER -> <<>>
    IN  IF d = <<>> THEN <<c>> ELSE d

\* the primary composites <<starter, composite>> of each combining mark of
\* U+0300..U+036F, indexed by mark - 767 (composition exclusions left out)
CompositeTable == <<
    {<<65, 192>>, <<69, 200>>, <<73, 204>>, <<78, 504>>, <<79, 210>>, <<85,
    217>>, <<87, 7808>>, <<89, 7922>>, <<97, 224>>, <<101, 232>>, <<105,
    236>>, <<110, 505>>, <<111, 242>>, <<117, 249>>, <<119, 7809>>, <<121,
    7923>>, <<168, 8173>>, <<194, 7846>>, <<202, 7872>>, <<212, 7890>>,
    <<220, 475>>, <<226, 7847>>, <<234, 7873>>, <<244, 7891>>, <<252, 476>>,
    <<258, 7856>>, <<259, 7857>>, <<274, 7700>>, <<275, 7701>>, <<332,
    7760>>, <<333, 7761>>, <<416, 7900>>, <<417, 7901>>, <<431, 7914>>,
    <<432, 7915>>, <<913, 8122>>, <<917, 8136>>, <<919, 8138>>, <<921,
    8154>>, <<927, 8184>>, <<933, 8170>>, <<937, 8186>>, <<945, 8048>>,
    <<949, 8050>>, <<951, 8052>>, <<953, 8054>>, <<959, 8056>>, <<965,
    8058>>, <<969, 8060>>, <<970, 8146>>, <<971, 8162>>, <<1045, 1024>>,
    <<1048, 1037>>, <<1077, 1104>>, <<1080, 1117>>, <<7936, 7938>>, <<7937,
    7939>>, <<7944, 7946>>, <<7945, 7947>>, <<7952, 7954>>, <<7953, 7955>>,
    <<7960, 7962>>, <<7961, 7963>>, <<7968, 7970>>, <<7969, 7971>>, <<7976,
    7978>>, <<7977, 7979>>, <<7984, 7986>>, <<7985, 7987>>, <<7992, 7994>>,
    <<7993, 7995>>, <<8000, 8002>>, <<8001, 8003>>, <<8008, 8010>>, <<8009,
    8011>>, <<8016, 8018>>, <<8017, 8019>>, <<8025, 8027>>, <<8032, 8034>>,
    <<8033, 8035>>, <<8040, 8042>>, <<8041, 8043>>, <<8127, 8141>>, <<8190,
    8157>>}, {<<65, 193>>, <<67, 262>>, <<69, 201>>, <<71, 500>>, <<73,
    205>>, <<75, 7728>>, <<76, 313>>, <<77, 7742>>, <<78, 323>>, <<79,
    211>>, <<80, 7764>>, <<82, 340>>, <<83, 346>>, <<85, 218>>, <<87,
    7810>>, <<89, 221>>, <<90, 377>>, <<97, 225>>, <<99, 263>>, <<101,
    233>>, <<103, 501>>, <<105, 237>>, <<107, 7729>>, <<108, 314>>, <<109,
    7743>>, <<110, 324>>, <<111, 243>>, <<112, 7765>>, <<114, 341>>, <<115,
    347>>, <<117, 250>>, <<119, 7811>>, <<121, 253>>, <<122, 378>>, <<168,
    901>>, <<194, 7844>>, <<197, 506>>, <<198, 508>>, <<199, 7688>>, <<202,
    7870>>, <<207, 7726>>, <<212, 7888>>, <<213, 7756>>, <<216, 510>>,
    <<220, 471>>, <<226, 7845>>, <<229, 507>>, <<230, 509>>, <<231, 7689>>,
    <<234, 7871>>, <<239, 7727>>, <<244, 7889>>, <<245, 7757>>, <<248,
    511>>, <<252, 472>>, <<258, 7854>>, <<259, 7855>>, <<274, 7702>>, <<275,
    7703>>, <<332, 7762>>, <<333, 7763>>, <<360, 7800>>, <<361, 7801>>,
    <<416, 7898>>, <<417, 7899>>, <<431, 7912>>, <<432, 7913>>, <<913,
    902>>, <<917, 904>>, <<919, 905>>, <<921, 906>>, <<927, 908>>, <<933,
    910>>, <<937, 911>>, <<945, 940>>, <<949, 941>>, <<951, 942>>, <<953,
    943>>, <<959, 972>>, <<965, 973>>, <<969, 974>>, <<970, 912>>, <<971,
    944>>, <<978, 979>>, <<1043, 1027>>, <<1050, 1036>>, <<1075, 1107>>,
    <<1082, 1116>>, <<7936, 7940>>, <<7937, 7941>>, <<7944, 7948>>, <<7945,
    7949>>, <<7952, 7956>>, <<7953, 7957>>, <<7960, 7964>>, <<7961, 7965>>,
    <<7968, 7972>>, <<7969, 7973>>, <<7976, 7980>>, <<7977, 7981>>, <<7984,
    7988>>, <<7985, 7989>>, <<7992, 7996>>, <<7993, 7997>>, <<8000, 8004>>,
    <<8001, 8005>>, <<8008, 8012>>, <<8009, 8013>>, <<8016, 8020>>, <<8017,
    8021>>, <<8025, 8029>>, <<8032, 8036>>, <<8033, 8037>>, <<8040, 8044>>,
    <<8041, 8045>>, <<8127, 8142>>, <<8190, 8158>>}, {<<65, 194>>, <<67,
    264>>, <<69, 202>>, <<71, 284>>, <<72, 292>>, <<73, 206>>, <<74, 308>>,
    <<79, 212>>, <<83, 348>>, <<85, 219>>, <<87, 372>>, <<89, 374>>, <<90,
    7824>>, <<97, 226>>, <<99, 265>>, <<101, 234>>, <<103, 285>>, <<104,
    293>>, <<105, 238>>, <<106, 309>>, <<111, 244>>, <<115, 349>>, <<117,
    251>>, <<119, 373>>, <<121, 375>>, <<122, 7825>>, <<7840, 7852>>,
    <<7841, 7853>>, <<7864, 7878>>, <<7865, 7879>>, <<7884, 7896>>, <<7885,
    7897>>}, {<<65, 195>>, <<69, 7868>>, <<73, 296>>, <<78, 209>>, <<79,
    213>>, <<85, 360>>, <<86, 7804>>, <<89, 7928>>, <<97, 227>>, <<101,
    7869>>, <<105, 297>>, <<110, 241>>, <<111, 245>>, <<117, 361>>, <<118,
    7805>>, <<121, 7929>>, <<194, 7850>>, <<202, 7876>>, <<212, 7894>>,
    <<226, 7851>>, <<234, 7877>>, <<244, 7895>>, <<258, 7860>>, <<259,
    7861>>, <<416, 7904>>, <<417, 7905>>, <<431, 7918>>, <<432, 7919>>},
    {<<65, 256>>, <<69, 274>>, <<71, 7712>>, <<73, 298>>, <<79, 332>>, <<85,
    362>>, <<89, 562>>, <<97, 257>>, <<101, 275>>, <<103, 7713>>, <<105,
    299>>, <<111, 333>>, <<117, 363>>, <<121, 563>>, <<196, 478>>, <<198,
    482>>, <<213, 556>>, <<214, 554>>, <<220, 469>>, <<228, 479>>, <<230,
    483>>, <<245, 557>>, <<246, 555>>, <<252, 470>>, <<490, 492>>, <<491,
    493>>, <<550, 480>>, <<551, 481>>, <<558, 560>>, <<559, 561>>, <<913,
    8121>>, <<921, 8153>>, <<933, 8169>>, <<945, 8113>>, <<953, 8145>>,
    <<965, 8161>>, <<1048, 1250>>, <<1059, 1262>>, <<1080, 1251>>, <<1091,
    1263>>, <<7734, 7736>>, <<7735, 7737>>, <<7770, 7772>>, <<7771, 7773>>},
    {}, {<<65, 258>>, <<69, 276>>, <<71, 286>>, <<73, 300>>, <<79, 334>>,
    <<85, 364>>, <<97, 259>>, <<101, 277>>, <<103, 287>>, <<105, 301>>,
    <<111, 335>>, <<117, 365>>, <<552, 7708>>, <<553, 7709>>, <<913, 8120>>,
    <<921, 8152>>, <<933, 8168>>, <<945, 8112>>, <<953, 8144>>, <<965,
    8160>>, <<1040, 1232>>, <<1045, 1238>>, <<1046, 1217>>, <<1048, 1049>>,
    <<1059, 1038>>, <<1072, 1233>>, <<1077, 1239>>, <<1078, 1218>>, <<1080,
    1081>>, <<1091, 1118>>, <<7840, 7862>>, <<7841, 7863>>}, {<<65, 550>>,
    <<66, 7682>>, <<67, 266>>, <<68, 7690>>, <<69, 278>>, <<70, 7710>>,
    <<71, 288>>, <<72, 7714>>, <<73, 304>>, <<77, 7744>>, <<78, 7748>>,
    <<79, 558>>, <<80, 7766>>, <<82, 7768>>, <<83, 7776>>, <<84, 7786>>,
    <<87, 7814>>, <<88, 7818>>, <<89, 7822>>, <<90, 379>>, <<97, 551>>,
    <<98, 7683>>, <<99, 267>>, <<100, 7691>>, <<101, 279>>, <<102, 7711>>,
    <<103, 289>>, <<104, 7715>>, <<109, 7745>>, <<110, 7749>>, <<111, 559>>,
    <<112, 7767>>, <<114, 7769>>, <<115, 7777>>, <<116, 7787>>, <<119,
    7815>>, <<120, 7819>>, <<121, 7823>>, <<122, 380>>, <<346, 7780>>,
    <<347, 7781>>, <<352, 7782>>, <<353, 7783>>, <<383, 7835>>, <<7778,
    7784>>, <<7779, 7785>>}, {<<65, 196>>, <<69, 203>>, <<72, 7718>>, <<73,
    207>>, <<79, 214>>, <<85, 220>>, <<87, 7812>>, <<88, 7820>>, <<89,
    376>>, <<97, 228>>, <<101, 235>>, <<104, 7719>>, <<105, 239>>, <<111,
    246>>, <<116, 7831>>, <<117, 252>>, <<119, 7813>>, <<120, 7821>>, <<121,
    255>>, <<213, 7758>>, <<245, 7759>>, <<362, 7802>>, <<363, 7803>>,
    <<921, 938>>, <<933, 939>>, <<953, 970>>, <<965, 971>>, <<978, 980>>,
    <<1030, 1031>>, <<1040, 1234>>, <<1045, 1025>>, <<1046, 1244>>, <<1047,
    1246>>, <<1048, 1252>>, <<1054, 1254>>, <<1059, 1264>>, <<1063, 1268>>,
    <<1067, 1272>>, <<1069, 1260>>, <<1072, 1235>>, <<1077, 1105>>, <<1078,
    1245>>, <<1079, 1247>>, <<1080, 1253>>, <<1086, 1255>>, <<1091, 1265>>,
    <<1095, 1269>>, <<1099, 1273>>, <<1101, 1261>>, <<1110, 1111>>, <<1240,
    1242>>, <<1241, 1243>>, <<1256, 1258>>, <<1257, 1259>>}, {<<65, 7842>>,
    <<69, 7866>>, <<73, 7880>>, <<79, 7886>>, <<85, 7910>>, <<89, 7926>>,
    <<97, 7843>>, <<101, 7867>>, <<105, 7881>>, <<111, 7887>>, <<117,
    7911>>, <<121, 7927>>, <<194, 7848>>, <<202, 7874>>, <<212, 7892>>,
    <<226, 7849>>, <<234, 7875>>, <<244, 7893>>, <<258, 7858>>, <<259,
    7859>>, <<416, 7902>>, <<417, 7903>>, <<431, 7916>>, <<432, 7917>>},
    {<<65, 197>>, <<85, 366>>, <<97, 229>>, <<117, 367>>, <<119, 7832>>,
    <<121, 7833>>}, {<<79, 336>>, <<85, 368>>, <<111, 337>>, <<117, 369>>,
    <<1059, 1266>>, <<1091, 1267>>}, {<<65, 461>>, <<67, 268>>, <<68, 270>>,
    <<69, 282>>, <<71, 486>>, <<72, 542>>, <<73, 463>>, <<75, 488>>, <<76,
    317>>, <<78, 327>>, <<79, 465>>, <<82, 344>>, <<83, 352>>, <<84, 356>>,
    <<85, 467>>, <<90, 381>>, <<97, 462>>, <<99, 269>>, <<100, 271>>, <<101,
    283>>, <<103, 487>>, <<104, 543>>, <<105, 464>>, <<106, 496>>, <<107,
    489>>, <<108, 318>>, <<110, 328>>, <<111, 466>>, <<114, 345>>, <<115,
    353>>, <<116, 357>>, <<117, 468>>, <<122, 382>>, <<220, 473>>, <<252,
    474>>, <<439, 494>>, <<658, 495>>}, {}, {}, {<<65, 512>>, <<69, 516>>,
    <<73, 520>>, <<79, 524>>, <<82, 528>>, <<85, 532>>, <<97, 513>>, <<101,
    517>>, <<105, 521>>, <<111, 525>>, <<114, 529>>, <<117, 533>>, <<1140,
    1142>>, <<1141, 1143>>}, {}, {<<65, 514>>, <<69, 518>>, <<73, 522>>,
    <<79, 526>>, <<82, 530>>, <<85, 534>>, <<97, 515>>, <<101, 519>>, <<105,
    523>>, <<111, 527>>, <<114, 531>>, <<117, 535>>}, {}, {<<913, 7944>>,
    <<917, 7960>>, <<919, 7976>>, <<921, 7992>>, <<927, 8008>>, <<937,
    8040>>, <<945, 7936>>, <<949, 7952>>, <<951, 7968>>, <<953, 7984>>,
    <<959, 8000>>, <<961, 8164>>, <<965, 8016>>, <<969, 8032>>}, {<<913,
    7945>>, <<917, 7961>>, <<919, 7977>>, <<921, 7993>>, <<927, 8009>>,
    <<929, 8172>>, <<933, 8025>>, <<937, 8041>>, <<945, 7937>>, <<949,
    7953>>, <<951, 7969>>, <<953, 7985>>, <<959, 8001>>, <<961, 8165>>,
    <<965, 8017>>, <<969, 8033>>}, {}, {}, {}, {}, {}, {}, {<<79, 416>>,
    <<85, 431>>, <<111, 417>>, <<117, 432>>}, {}, {}, {}, {}, {}, {}, {},
    {<<65, 7840>>, <<66, 7684>>, <<68, 7692>>, <<69, 7864>>, <<72, 7716>>,
    <<73, 7882>>, <<75, 7730>>, <<76, 7734>>, <<77, 7746>>, <<78, 7750>>,
    <<79, 7884>>, <<82, 7770>>, <<83, 7778>>, <<84, 7788>>, <<85, 7908>>,
    <<86, 7806>>, <<87, 7816>>, <<89, 7924>>, <<90, 7826>>, <<97, 7841>>,
    <<98, 7685>>, <<100, 7693>>, <<101, 7865>>, <<104, 7717>>, <<105,
    7883>>, <<107, 7731>>, <<108, 7735>>, <<109, 7747>>, <<110, 7751>>,
    <<111, 7885>>, <<114, 7771>>, <<115, 7779>>, <<116, 7789>>, <<117,
    7909>>, <<118, 7807>>, <<119, 7817>>, <<121, 7925>>, <<122, 7827>>,
    <<416, 7906>>, <<417, 7907>>, <<431, 7920>>, <<432, 7921>>}, {<<85,
    7794>>, <<117, 7795>>}, {<<65, 7680>>, <<97, 7681>>}, {<<83, 536>>,
    <<84, 538>>, <<115, 537>>, <<116, 539>>}, {<<67, 199>>, <<68, 7696>>,
    <<69, 552>>, <<71, 290>>, <<72, 7720>>, <<75, 310>>, <<76, 315>>, <<78,
    325>>, <<82, 342>>, <<83, 350>>, <<84, 354>>, <<99, 231>>, <<100,
    7697>>, <<101, 553>>, <<103, 291>>, <<104, 7721>>, <<107, 311>>, <<108,
    316>>, <<110, 326>>, <<114, 343>>, <<115, 351>>, <<116, 355>>}, {<<65,
    260>>, <<69, 280>>, <<73, 302>>, <<79, 490>>, <<85, 370>>, <<97, 261>>,
    <<101, 281>>, <<105, 303>>, <<111, 491>>, <<117, 371>>}, {}, {}, {}, {},
    {<<68, 7698>>, <<69, 7704>>, <<76, 7740>>, <<78, 7754>>, <<84, 7792>>,
    <<85, 7798>>, <<100, 7699>>, <<101, 7705>>, <<108, 7741>>, <<110,
    7755>>, <<116, 7793>>, <<117, 7799>>}, {<<72, 7722>>, <<104, 7723>>},
    {}, {<<69, 7706>>, <<73, 7724>>, <<85, 7796>>, <<101, 7707>>, <<105,
    7725>>, <<117, 7797>>}, {<<66, 7686>>, <<68, 7694>>, <<75, 7732>>, <<76,
    7738>>, <<78, 7752>>, <<82, 7774>>, <<84, 7790>>, <<90, 7828>>, <<98,
    7687>>, <<100, 7695>>, <<104, 7830>>, <<107, 7733>>, <<108, 7739>>,
    <<110, 7753>>, <<114, 7775>>, <<116, 7791>>, <<122, 7829>>}, {}, {}, {},
    {}, {}, {}, {<<60, 8814>>, <<61, 8800>>, <<62, 8815>>}, {}, {}, {}, {},
    {}, {}, {}, {}, {}, {<<168, 8129>>, <<945, 8118>>, <<951, 8134>>, <<953,
    8150>>, <<965, 8166>>, <<969, 8182>>, <<970, 8151>>, <<971, 8167>>,
    <<7936, 7942>>, <<7937, 7943>>, <<7944, 7950>>, <<7945, 7951>>, <<7968,
    7974>>, <<7969, 7975>>, <<7976, 7982>>, <<7977, 7983>>, <<7984, 7990>>,
    <<7985, 7991>>, <<7992, 7998>>, <<7993, 7999>>, <<8016, 8022>>, <<8017,
    8023>>, <<8025, 8031>>, <<8032, 8038>>, <<8033, 8039>>, <<8040, 8046>>,
    <<8041, 8047>>, <<8127, 8143>>, <<8190, 8159>>}, {}, {}, {<<913, 8124>>,
    <<919, 8140>>, <<937, 8188>>, <<940, 8116>>, <<942, 8132>>, <<945,
    8115>>, <<951, 8131>>, <<969, 8179>>, <<974, 8180>>, <<7936, 8064>>,
    <<7937, 8065>>, <<7938, 8066>>, <<7939, 8067>>, <<7940, 8068>>, <<7941,
    8069>>, <<7942, 8070>>, <<7943, 8071>>, <<7944, 8072>>, <<7945, 8073>>,
    <<7946, 8074>>, <<7947, 8075>>, <<7948, 8076>>, <<7949, 8077>>, <<7950,
    8078>>, <<7951, 8079>>, <<7968, 8080>>, <<7969, 8081>>, <<7970, 8082>>,
    <<7971, 8083>>, <<7972, 8084>>, <<7973, 8085>>, <<7974, 8086>>, <<7975,
    8087>>, <<7976, 8088>>, <<7977, 8089>>, <<7978, 8090>>, <<7979, 8091>>,
    <<7980, 8092>>, <<7981, 8093>>, <<7982, 8094>>, <<7983, 8095>>, <<8032,
    8096>>, <<8033, 8097>>, <<8034, 8098>>, <<8035, 8099>>, <<8036, 8100>>,
    <<8037, 8101>>, <<8038, 8102>>, <<8039, 8103>>, <<8040, 8104>>, <<8041,
    8105>>, <<8042, 8106>>, <<8043, 8107>>, <<8044, 8108>>, <<8045, 8109>>,
    <<8046, 8110>>, <<8047, 8111>>, <<8048, 8114>>, <<8052, 8130>>, <<8060,
    8178>>, <<8118, 8119>>, <<8134, 8135>>, <<8182, 8183>>}, {}, {}, {}, {},
    {}, {}, {}, {}, {}, {}, {}, {}, {}, {}, {}, {}, {}, {}, {}, {}, {}, {},
    {}, {}, {}, {}, {}, {}, {}, {}, {}, {}, {}, {}, {}, {}, {}, {}, {}, {},
    {}, {}
>>

\* primary composite of a starter and a combining mark, 0 when there is none
Composite(b, m) ==
    IF m \notin 768..879 THEN 0
    ELSE LET hits == {p \in CompositeTable[m - 767] : p[1] = b}
         IN  IF hits = {} THEN 0 ELSE (CHOOSE p \in hits : TRUE)[2]

\* canonical ordering, one step: c is put before the marks at the end of out
\* whose combining class is greater than its own
RECURSIVE InsertInOrder(_, _)
InsertInOrder(out, c) ==
    IF out # <<>> /\ Ccc(c) # 0 /\ Ccc(out[Len(out)]) > Ccc(c)
    THEN Append(InsertInOrder(SubSeq(out, 1, Len(out) - 1), c), out[Len(out)])
    ELSE Append(out, c)

RECURSIVE CanonicalOrder(_, _)
CanonicalOrder(s, out) ==
    IF s = <<>> THEN out ELSE CanonicalOrder(Tail(s), InsertInOrder(out, Head(s)))

RECURSIVE Decompose(_)
Decompose(s) == IF s = <<>> THEN <<>> ELSE Decomposition(Head(s)) \o Decompose(Tail(s))

\* unicodedata.normalize('NFD', s): decomposition, then canonical ordering
NFD(s) == CanonicalOrder(Decompose(s), <<>>)

\* unicodedata.normalize('NFC', s) of a decomposed string: a character
\* composes with the last starter when a primary composite exists and it is
\* not blocked (no character of an equal or higher combining class stands
\* between them).
\* out: the composed prefix; st: index in out of the last starter, 0 if none.
RECURSIVE Compose(_, _, _)
Compose(s, out, st) ==
    IF s = <<>> THEN out
    ELSE LET c == Head(s)
             blocked == Len(out) > st /\ Ccc(out[Len(out)]) >= Ccc(c)
         IN  IF st > 0 /\ ~blocked /\ Composite(out[st], c) # 0
             THEN Compose(Tail(s), [out EXCEPT ![st] = Composite(out[st], c)], st)
             ELSE IF Ccc(c) = 0
                  THEN Compose(Tail(s), Append(out, c), Len(out) + 1)
                  ELSE Compose(Tail(s), Append(out, c), st)

NFC(s) == Compose(NFD(s), <<>>, 0)

\* str.lower() of one code point
LowerChar(c) ==
    CASE c \in 1040..1071 -> c + 32    \* А-Я
      [] c \in 1024..1039 -> c + 80    \* Ѐ-Џ (Є, І, Ї)
      [] c = 1168         -> 1169      \* Ґ
      [] c \in 65..90     -> c + 32    \* A-Z
      [] OTHER            -> c

lower(s) == [i \in 1..Len(s) |-> LowerChar(s[i])]

\* variant of RemoveMn that deletes only the first mark of the string
RemoveFirstMn(s) ==
    IF \E i \in 1..Len(s) : s[i] \in 768..879
    THEN LET i == CHOOSE j \in 1..Len(s) :
                    /\ s[j] \in 768..879
                    /\ \A k \in 1..(j - 1) : s[k] \notin 768..879
         IN  SubSeq(s, 1, i - 1) \o SubSeq(s, i + 1, Len(s))
    ELSE s

\* ''.join(c for c in s if unicodedata.category(c) != 'Mn')
RECURSIVE RemoveMn(_)
RemoveMn(s) ==
    IF s = <<>> THEN <<>>
    ELSE IF IsMn(Head(s)) THEN RemoveMn(Tail(s))
         ELSE <<Head(s)>> \o RemoveMn(Tail(s))

strip_accents(s) == NFC(RemoveMn(NFD(s)))

-----------------------------------------------------------------------------
(* Token and TextProcessor                                                 *)

\* Token.normalized
normalized(t) == strip_accents(lower(t.text))

\* WORD_PATTERN, first character class
IsWordStart(c) ==
    \/ c \in 1072..1103                 \* а-я
    \/ c \in {1110, 1111, 1108, 1169}   \* і ї є ґ
    \/ c \in 1040..1071                 \* А-Я
    \/ c \in {1030, 1031, 1028, 1168}   \* І Ї Є Ґ

\* variant of IsWordCont whose class also takes Latin letters
IsWordContLatin(c) ==
    \/ c \in 1040..1103
    \/ c \in {1110, 1111, 1108, 1169, 1030, 1031, 1028, 1168}
    \/ c \in {39, 700}
    \/ c \in 768..879
    \/ c \in 97..122
    \/ c \in 65..90

\* WORD_PATTERN, second (starred) character class
IsWordCont(c) ==
    \/ IsWordStart(c)
    \/ c \in {39, 700}                  \* ' and U+02BC
    \/ c \in 768..879                   \* ̀-ͯ

\* variant of MatchEnd for a lazy star: the match stops at once
MatchEndLazy(s, e) == e

\* end (exclusive, 0-based) of the greedy match that starts at 0-based i
RECURSIVE MatchEnd(_, _)
MatchEnd(s, e) ==
    IF e < Len(s) /\ IsWordCont(s[e + 1]) THEN MatchEnd(s, e + 1) ELSE e

\* WORD_PATTERN.finditer(s) from 0-based position pos: the non-overlapping
\* matches, left to right, as <<start, end>> pairs
RECURSIVE FindIter(_, _)
FindIter(s, pos) ==
    IF pos >= Len(s) THEN <<>>
    ELSE IF IsWordStart(s[pos + 1])
         THEN LET e == MatchEnd(s, pos + 1)
              IN  <<<<pos, e>>>> \o FindIter(s, e)
         ELSE FindIter(s, pos + 1)

finditer(s) == FindIter(s, 0)

Token(txt, st, en, w) == [text |-> txt, start |-> st, end |-> en, is_word |-> w]

\* the for loop of tokenize over the matches ms, from the k-th on
RECURSIVE TokenizeLoop(_, _, _, _, _)
TokenizeLoop(s, ms, k, toks, last_end) ==
    IF k > Len(ms)
    THEN IF last_end < Len(s)
         THEN Append(toks, Token(SubSeq(s, last_end + 1, Len(s)), last_end, Len(s), FALSE))
         ELSE toks
    ELSE LET ms_start == ms[k][1]
             ms_end   == ms[k][2]
             before == IF ms_start > last_end
                       THEN Append(toks, Token(SubSeq(s, last_end + 1, ms_start),
                                               last_end, ms_start, FALSE))
                       ELSE toks
             word == Token(SubSeq(s, ms_start + 1, ms_end), ms_start, ms_end, TRUE)
         IN  TokenizeLoop(s, ms, k + 1, Append(before, word), ms_end)

\* variant of tokenize without the "remaining non-word text" block
tokenize_drop_tail(s) ==
    LET toks == TokenizeLoop(s, finditer(s), 1, <<>>, 0)
    IN  IF toks # <<>> /\ ~toks[Len(toks)].is_word
        THEN SubSeq(toks, 1, Len(toks) - 1)
        ELSE toks

\* variant of tokenize without the "non-word text before this match" block
tokenize_skip_gap(s) ==
    LET toks == TokenizeLoop(s, finditer(s), 1, <<>>, 0)
        keep == {i \in 1..Len(toks) : toks[i].is_word \/ i = Len(toks)}
        Nth(n) == CHOOSE i \in keep : Cardinality({j \in keep : j < i}) = n - 1
    IN  [n \in 1..Cardinality(keep) |-> toks[Nth(n)]]

\* variant of tokenize that emits the text before a match even when it is
\* empty
tokenize_empty_gaps(s) ==
    LET ms == finditer(s)
        toks == TokenizeLoop(s, ms, 1, <<>>, 0)
    IN  IF ms # <<>> /\ ms[1][1] = 0
        THEN <<Token(<<>>, 0, 0, FALSE)>> \o toks
        ELSE toks

\* TextProcessor.tokenize
tokenize(s) == TokenizeLoop(s, finditer(s), 1, <<>>, 0)

\* variant of StageOf that tests the learning set first
StageOfLearningFirst(t, known, learning) ==
    IF t.is_word
    THEN IF normalized(t) \in learning THEN "learning"
         ELSE IF normalized(t) \in known THEN "known"
         ELSE "new"
    ELSE "new"

\* variant of StageOf that looks every token up, word or not
StageOfAnyToken(t, known, learning) ==
    IF normalized(t) \in known THEN "known"
    ELSE IF normalized(t) \in learning THEN "learning"
    ELSE "new"

\* the stage annotate gives one token (the body of its for loop)
StageOf(t, known, learning) ==
    IF t.is_word
    THEN IF normalized(t) \in known THEN "known"
         ELSE IF normalized(t) \in learning THEN "learning"
         ELSE "new"
    ELSE "new"

\* variant of AnnotatedToken that stores the lookup key as the text
AnnotatedTokenNormalized(t, stage) ==
    [text |-> normalized(t), start |-> t.start, end |-> t.end, is_word |-> t.is_word,
     stage |-> stage]

AnnotatedToken(t, stage) ==
    [text |-> t.text, start |-> t.start, end |-> t.end, is_word |-> t.is_word,
     stage |-> stage]

annotate(s, known, learning) ==
    LET toks == tokenize(s)
    IN  [tokens |-> [i \in 1..Len(toks) |->
                        AnnotatedToken(toks[i], StageOf(toks[i], known, learning))],
         original |-> s]

\* variant of extract_words that returns the matches as written
extract_words_raw(s) ==
    LET ms == finditer(s)
    IN  [k \in 1..Len(ms) |-> SubSeq(s, ms[k][1] + 1, ms[k][2])]

\* TextProcessor.extract_words
extract_words(s) ==
    LET ms == finditer(s)
    IN  [k \in 1..Len(ms) |-> strip_accents(lower(SubSeq(s, ms[k][1] + 1, ms[k][2])))]

\* variant of count_words that counts every token
count_words_all_tokens(s) == Len(tokenize(s))

\* TextProcessor.count_words
count_words(s) == Len(finditer(s))

\* A Python float is an IEEE 754 binary64 number. The floats of this program
\* are never negative, so one is kept as its two unsigned fields: exponent,
\* the biased 11-bit exponent as a number, and fraction, the 52 fraction bits
\* as four digits of 13 bits each (base 8192), most significant first. A
\* natural number of any size is a sequence of such digits, most significant
\* first, with no leading zero (<<>> is 0).
Zeros(n) == [i \in 1..n |-> 0]

StripZeros(d) ==
    LET nonzero == {i \in 1..Len(d) : d[i] # 0}
    IN  IF nonzero = {} THEN <<>>
        ELSE SubSeq(d, CHOOSE i \in nonzero : \A j \in nonzero : i <= j, Len(d))

RECURSIVE Digits(_)
Digits(n) ==
    IF n = 0 THEN <<>> ELSE Append(Digits(n \div 8192), n % 8192)

\* a + b for two digit sequences of one length, with the carry out in front
RECURSIVE AddColumns(_, _)
AddColumns(a, b) ==
    IF a = <<>> THEN <<0>>
    ELSE LET rest == AddColumns(Tail(a), Tail(b))
             sum == Head(a) + Head(b) + rest[1]
         IN  <<sum \div 8192, sum % 8192>> \o Tail(rest)

AddDigits(a, b) ==
    LET n == IF Len(a) > Len(b) THEN Len(a) ELSE Len(b)
    IN  StripZeros(AddColumns(Zeros(n - Len(a)) \o a, Zeros(n - Len(b)) \o b))

\* a * c for a digit sequence a and a number c <= 2^17, carry out in front
RECURSIVE MulColumns(_, _)
MulColumns(a, c) ==
    IF a = <<>> THEN <<0>>
    ELSE LET rest == MulColumns(Tail(a), c)
             prod == Head(a) * c + rest[1]
         IN  <<prod \div 8192, prod % 8192>> \o Tail(rest)

MulSmall(a, c) == StripZeros(MulColumns(a, c))

\* a * b: shift and add over the digits of b
RECURSIVE MulDigitsLoop(_, _, _)
MulDigitsLoop(a, b, acc) ==
    IF b = <<>> THEN acc
    ELSE MulDigitsLoop(a, Tail(b),
                       AddDigits(IF acc = <<>> THEN <<>> ELSE Append(acc, 0),
                                 MulSmall(a, Head(b))))

MulDigits(a, b) == MulDigitsLoop(a, b, <<>>)

\* a * 2^n
ShiftLeft(a, n) ==
    IF a = <<>> THEN <<>> ELSE MulSmall(a, 2 ^ (n % 13)) \o Zeros(n \div 13)

\* a <= b for two digit sequences of one length
RECURSIVE DigitsLeqSameLen(_, _)
DigitsLeqSameLen(a, b) ==
    IF a = <<>> THEN TRUE
    ELSE IF Head(a) # Head(b) THEN Head(a) < Head(b)
    ELSE DigitsLeqSameLen(Tail(a), Tail(b))

DigitsLeq(a, b) ==
    IF Len(a) # Len(b) THEN Len(a) < Len(b) ELSE DigitsLeqSameLen(a, b)

\* the float 0.0
ZeroFloat == [exponent |-> 0, fraction |-> Zeros(4)]

\* the 53-bit significand of a float other than 0.0: the hidden bit and the
\* fraction
Significand(x) == <<1>> \o x.fraction

\* the number of bits of one digit d > 0
BitLength(d) == CHOOSE k \in 1..13 : 2 ^ (k - 1) <= d /\ d < 2 ^ k

\* round to nearest, ties to even: the float nearest to m * 2^e2 (plus a
\* little more when sticky), for a natural m > 0 given by its digits
RoundToFloat(m, sticky, e2) ==
    LET top == BitLength(m[1])
        \* shift left until the leading digit is 1: 53 bits are five digits
        aligned == IF top = 1 THEN m ELSE MulSmall(m, 2 ^ (14 - top))
        padded == IF Len(aligned) < 6 THEN aligned \o Zeros(6 - Len(aligned))
                  ELSE aligned
        kept == SubSeq(padded, 1, 5)
        guard == padded[6] >= 4096
        rest == \/ sticky
                \/ padded[6] % 4096 # 0
                \/ \E i \in 7..Len(padded) : padded[i] # 0
        up == guard /\ (rest \/ kept[5] % 2 = 1)
        rounded == IF up THEN AddDigits(kept, <<1>>) ELSE kept
    IN  [exponent |-> e2 + top + 13 * (Len(m) - 1) - 1 + (rounded[1] - 1) + 1023,
         fraction |-> SubSeq(rounded, 2, 5)]

\* float(n) for an int n >= 0
FloatOfInt(n) ==
    IF n = 0 THEN ZeroFloat ELSE RoundToFloat(Digits(n), FALSE, 0)

\* scale k / n by powers of two until n <= k < 2n: <<k, n, e>> with the
\* quotient unchanged up to the factor 2^e
RECURSIVE ScaleQuotient(_, _, _)
ScaleQuotient(k, n, e) ==
    IF k < n THEN ScaleQuotient(2 * k, n, e - 1)
    ELSE IF k >= 2 * n THEN ScaleQuotient(k, 2 * n, e + 1)
    ELSE <<k, n, e>>

\* long division: count more digits of the quotient after remainder r
RECURSIVE DivSteps(_, _, _, _)
DivSteps(r, n, count, acc) ==
    IF count = 0 THEN <<acc, r>>
    ELSE DivSteps((r * 8192) % n, n, count - 1, Append(acc, (r * 8192) \div n))

\* int.__truediv__: k / n, correctly rounded, for ints 0 <= k and
\* 0 < n with both below 2^17
IntTrueDiv(k, n) ==
    IF k = 0 THEN ZeroFloat
    ELSE LET scaled == ScaleQuotient(k, n, 0)
             steps == DivSteps(scaled[1] - scaled[2], scaled[2], 5, <<1>>)
         IN  RoundToFloat(steps[1], steps[2] # 0, scaled[3] - 65)

\* float.__mul__: x * y, the exact product rounded once
FloatMul(x, y) ==
    IF x = ZeroFloat \/ y = ZeroFloat THEN ZeroFloat
    ELSE RoundToFloat(MulDigits(Significand(x), Significand(y)), FALSE,
                      (x.exponent - 1075) + (y.exponent - 1075))

\* x <= y for two floats
FloatLeq(x, y) ==
    \/ x.exponent < y.exponent
    \/ x.exponent = y.exponent /\ DigitsLeqSameLen(x.fraction, y.fraction)

\* variant of calculate_known_percentage that divides by the number of tokens
calculate_known_percentage_per_token(s, known) ==
    LET ws == extract_words(s)
        known_count == Cardinality({k \in 1..Len(ws) : ws[k] \in known})
    IN  IF ws = <<>> THEN ZeroFloat
        ELSE FloatMul(IntTrueDiv(known_count, Len(tokenize(s))), FloatOfInt(100))

\* TextProcessor.calculate_known_percentage: (known_count / len(words)) * 100
calculate_known_percentage(s, known) ==
    LET ws == extract_words(s)
        known_count == Cardinality({k \in 1..Len(ws) : ws[k] \in known})
    IN  IF ws = <<>> THEN ZeroFloat
        ELSE FloatMul(IntTrueDiv(known_count, Len(ws)), FloatOfInt(100))

\* str.__lt__: a < b by code points, a proper prefix first
RECURSIVE StrLess(_, _)
StrLess(a, b) ==
    IF b = <<>> THEN FALSE
    ELSE IF a = <<>> THEN TRUE
    ELSE IF Head(a) # Head(b) THEN Head(a) < Head(b)
    ELSE StrLess(Tail(a), Tail(b))

\* sorted(S) of a set of str
RECURSIVE sorted(_)
sorted(S) ==
    IF S = {} THEN <<>>
    ELSE LET least == CHOOSE a \in S : \A b \in S \ {a} : StrLess(a, b)
         IN  <<least>> \o sorted(S \ {least})

\* the elements of the list ws that are in S, each once, in order of first occurrence
RECURSIVE FirstOccurrences(_, _)
FirstOccurrences(ws, S) ==
    IF ws = <<>> THEN <<>>
    ELSE IF Head(ws) \in S
         THEN <<Head(ws)>> \o FirstOccurrences(Tail(ws), S \ {Head(ws)})
         ELSE FirstOccurrences(Tail(ws), S)

\* variant of get_unknown_words that returns list(unknown) without sorting
get_unknown_words_unsorted(s, known, learning) ==
    LET ws == extract_words(s)
        word_set == {ws[k] : k \in 1..Len(ws)}
    IN  FirstOccurrences(ws, (word_set \ known) \ learning)

\* TextProcessor.get_unknown_words
get_unknown_words(s, known, learning) ==
    LET ws == extract_words(s)
        word_set == {ws[k] : k \in 1..Len(ws)}
    IN  sorted((word_set \ known) \ learning)

\* str.split('\n'); cur is the line being collected
RECURSIVE SplitLoop(_, _)
SplitLoop(s, cur) ==
    IF s = <<>> THEN <<cur>>
    ELSE IF Head(s) = 10 THEN <<cur>> \o SplitLoop(Tail(s), <<>>)
         ELSE SplitLoop(Tail(s), Append(cur, Head(s)))

\* variant of split_lines that drops a final empty line, as str.splitlines does
split_lines_no_trailing(s) ==
    LET ls == SplitLoop(s, <<>>)
    IN  IF ls[Len(ls)] = <<>> THEN SubSeq(ls, 1, Len(ls) - 1) ELSE ls

\* text.split('\n')
split_lines(s) == SplitLoop(s, <<>>)

\* variant of ShiftTokens that moves the start alone
ShiftTokensStartOnly(toks, off) ==
    [i \in 1..Len(toks) |-> [toks[i] EXCEPT !.start = @ + off]]

\* one turn of the loop of iter_lines_annotated: the list yielded for line
ShiftTokens(toks, off) ==
    [i \in 1..Len(toks) |->
        [toks[i] EXCEPT !.start = @ + off, !.end = @ + off]]

YieldLine(line, known, learning, off) ==
    ShiftTokens(annotate(line, known, learning).tokens, off)

\* variant of NextOffset that does not count the newline
NextOffsetNoNewline(off, line) == off + Len(line)

\* offset += len(line) + 1
NextOffset(off, line) == off + Len(line) + 1

-----------------------------------------------------------------------------
(* Database (src/src/storage/database.py): table words.  A row is a record *)
(* of the columns word, stage, translation and notes; the columns id,      *)
(* added_at and updated_at order results only and are left out.            *)

Row(w, s, t, n) == [word |-> w, stage |-> s, translation |-> t, notes |-> n]

\* COALESCE(a, b)
Coalesce(a, b) == IF a # None THEN a ELSE b

\* COLLATE NOCASE: SQLite folds the 26 ASCII letters only
NocaseFold(w) == [i \in 1..Len(w) |-> IF w[i] \in 65..90 THEN w[i] + 32 ELSE w[i]]

NocaseEq(a, b) == NocaseFold(a) = NocaseFold(b)

\* INSERT ... ON CONFLICT(word) DO UPDATE SET ...: word is UNIQUE under the
\* default BINARY collation; updated[r] is what DO UPDATE SET makes of row r
Upsert(rows, new_row, updated) ==
    IF \E r \in rows : r.word = new_row.word
    THEN {IF r.word = new_row.word THEN updated[r] ELSE r : r \in rows}
    ELSE rows \cup {new_row}

\* the None that get_word returns when no row matches
NoWord == [found |-> FALSE]

\* Database.get_word: fetchone() of the NOCASE match, None when there is none
get_word(rows, w) ==
    LET found == {r \in rows : NocaseEq(r.word, lower(w))}
    IN  IF found # {} THEN CHOOSE r \in found : TRUE ELSE NoWord

\* variant of get_known_words_set that selects WHERE stage != 'new'
get_known_words_set_not_new(rows) == {r.word : r \in {q \in rows : q.stage # "new"}}

\* Database.get_known_words_set
get_known_words_set(rows) == {r.word : r \in {q \in rows : q.stage = "known"}}

\* Database.get_learning_words_set
get_learning_words_set(rows) == {r.word : r \in {q \in rows : q.stage = "learning"}}

\* Database.save_word; wd is the Word given
save_word(rows, wd) ==
    LET Update == [r \in rows |-> [r EXCEPT !.translation = Coalesce(wd.translation, r.translation),
                               !.notes = Coalesce(wd.notes, r.notes),
                               !.stage = wd.stage]]
    IN  Upsert(rows, Row(lower(wd.word), wd.stage, wd.translation, wd.notes), Update)

\* variant of set_word_stage that stores the word as given
set_word_stage_as_given(rows, w, s) ==
    LET Update == [r \in rows |-> [r EXCEPT !.stage = s]]
    IN  Upsert(rows, Row(w, s, None, None), Update)

\* Database.set_word_stage
set_word_stage(rows, w, s) ==
    LET Update == [r \in rows |-> [r EXCEPT !.stage = s]]
    IN  Upsert(rows, Row(lower(w), s, None, None), Update)

\* Database.bulk_set_stage: the same statement for each word of the list
RECURSIVE bulk_set_stage(_, _, _)
bulk_set_stage(rows, ws, s) ==
    IF ws = <<>> THEN rows
    ELSE bulk_set_stage(set_word_stage(rows, Head(ws), s), Tail(ws), s)

\* variant of set_word_translation whose conflict clause also takes the
\* stage of the inserted row
set_word_translation_resets_stage(rows, w, t, n) ==
    LET Update == [r \in rows |-> [r EXCEPT !.translation = t,
                                            !.notes = Coalesce(n, r.notes),
                                            !.stage = "new"]]
    IN  Upsert(rows, Row(lower(w), "new", t, n), Update)

\* Database.set_word_translation
set_word_translation(rows, w, t, n) ==
    LET Update == [r \in rows |-> [r EXCEPT !.translation = t,
                               !.notes = Coalesce(n, r.notes)]]
    IN  Upsert(rows, Row(lower(w), "new", t, n), Update)

\* Database.delete_word: the rows left
delete_word(rows, w) == {r \in rows : ~NocaseEq(r.word, lower(w))}

\* variant of get_vocabulary_stats that returns the GROUP BY rows alone
get_vocabulary_stats_grouped_only(rows) ==
    [g \in {r.stage : r \in rows} |-> Cardinality({r \in rows : r.stage = g})]

\* Database.get_vocabulary_stats: a zero for every stage, overwritten by the
\* rows of SELECT stage, COUNT(*) ... GROUP BY stage
get_vocabulary_stats(rows) ==
    LET groups == {r.stage : r \in rows}
        count == [g \in groups |-> Cardinality({r \in rows : r.stage = g})]
    IN  [s \in Stages \cup groups |-> IF s \in groups THEN count[s] ELSE 0]

-----------------------------------------------------------------------------
(* The word-info cache: table word_info_cache                              *)

\* the code points c with chr(c).isspace(), which str.strip() removes
IsSpace(c) ==
    \/ c \in 9..13
    \/ c \in 28..32
    \/ c \in {133, 160, 5760, 8232, 8233, 8239, 8287, 12288}
    \/ c \in 8192..8202

RECURSIVE lstrip(_)
lstrip(s) == IF s # <<>> /\ IsSpace(Head(s)) THEN lstrip(Tail(s)) ELSE s

RECURSIVE rstrip(_)
rstrip(s) ==
    IF s # <<>> /\ IsSpace(s[Len(s)]) THEN rstrip(SubSeq(s, 1, Len(s) - 1)) ELSE s

\* str.strip()
strip(s) == rstrip(lstrip(s))

\* variant of lookup_key that only lowercases
lookup_key_lower_only(a) == lower(a)

\* lookup_key = word_or_phrase.lower().strip()
lookup_key(a) == strip(lower(a))

\* a row of word_info_cache (id and created_at are never read back)
InfoRow(k, ty, c) == [lookup_key |-> k, info_type |-> ty, content |-> c]

\* Database.get_word_info
get_word_info(rows, a) ==
    LET found == {r \in rows : r.lookup_key = lookup_key(a)}
    IN  IF found # {} THEN (CHOOSE r \in found : TRUE).content ELSE None

\* Database.save_word_info: INSERT ... ON CONFLICT(lookup_key) DO UPDATE
save_word_info(rows, a, ty, c) ==
    LET k == lookup_key(a)
    IN  IF \E r \in rows : r.lookup_key = k
        THEN {IF r.lookup_key = k
              THEN [r EXCEPT !.info_type = ty, !.content = c]
              ELSE r : r \in rows}
        ELSE rows \cup {InfoRow(k, ty, c)}

\* Database.clear_word_info_cache: the rows left and the rowcount returned
clear_word_info_cache(rows) == [rows |-> {}, rowcount |-> Cardinality(rows)]

-----------------------------------------------------------------------------
(* The VocabularyManager: a Database and two caches                        *)

\* a cache that is None; a cache holding the set S is <<S>>
NoCache == <<>>

Manager(rows, known, learning) ==
    [db |-> rows, known_cache |-> known, learning_cache |-> learning]

\* variant of _invalidate_cache that forgets the known cache alone
invalidate_known_cache_only(vm) == [vm EXCEPT !.known_cache = NoCache]

\* VocabularyManager._invalidate_cache
invalidate_cache(vm) ==
    [vm EXCEPT !.known_cache = NoCache, !.learning_cache = NoCache]

\* VocabularyManager.get_known_words: the manager after the call and the
\* set returned
vm_get_known_words(vm) ==
    LET filled == IF vm.known_cache = NoCache
                  THEN [vm EXCEPT !.known_cache = <<get_known_words_set(vm.db)>>]
                  ELSE vm
    IN  [vm |-> filled, result |-> filled.known_cache[1]]

\* VocabularyManager.get_learning_words
vm_get_learning_words(vm) ==
    LET filled == IF vm.learning_cache = NoCache
                  THEN [vm EXCEPT !.learning_cache = <<get_learning_words_set(vm.db)>>]
                  ELSE vm
    IN  [vm |-> filled, result |-> filled.learning_cache[1]]

\* VocabularyManager.get_stage: the learning set is fetched only when the
\* word is not known
vm_get_stage(vm, w) ==
    LET word_lower == lower(w)
        k == vm_get_known_words(vm)
        l == vm_get_learning_words(k.vm)
    IN  IF word_lower \in k.result THEN [vm |-> k.vm, result |-> "known"]
        ELSE IF word_lower \in l.result THEN [vm |-> l.vm, result |-> "learning"]
        ELSE [vm |-> l.vm, result |-> "new"]

\* VocabularyManager.set_stage
vm_set_stage(vm, w, s) ==
    invalidate_cache([vm EXCEPT !.db = set_word_stage(vm.db, w, s)])

\* variant of bulk_set_stage that keeps the caches
vm_bulk_set_stage_keeps_cache(vm, ws, s) ==
    [vm EXCEPT !.db = bulk_set_stage(vm.db, ws, s)]

\* VocabularyManager.bulk_set_stage
vm_bulk_set_stage(vm, ws, s) ==
    invalidate_cache([vm EXCEPT !.db = bulk_set_stage(vm.db, ws, s)])

\* VocabularyManager.mark_known
mark_known(vm, w) == vm_set_stage(vm, w, "known")

\* VocabularyManager.mark_learning
mark_learning(vm, w) == vm_set_stage(vm, w, "learning")

\* VocabularyManager.set_translation: the caches are left as they are
vm_set_translation(vm, w, t, n) ==
    [vm EXCEPT !.db = set_word_translation(vm.db, w, t, n)]

\* VocabularyManager.add_word
vm_add_word(vm, wd) == invalidate_cache([vm EXCEPT !.db = save_word(vm.db, wd)])

\* VocabularyManager.delete_word: the caches are invalidated when a row was
\* deleted
vm_delete_word(vm, w) ==
    LET rows == delete_word(vm.db, w)
        result == rows # vm.db
        after == [vm EXCEPT !.db = rows]
    IN  [vm |-> IF result THEN invalidate_cache(after) ELSE after,
         result |-> result]

-----------------------------------------------------------------------------
(* The AnnotatedTextViewer (src/src/ui/widgets.py): the word list, the     *)
(* cursor and the selection.  Indices are 0-based as in the code:          *)
(* self.words[i] is words[i + 1].                                          *)

WordInfo(t, line_idx_, word_idx, global_idx, char_start) ==
    [text |-> t.text, line_idx |-> line_idx_, normalized |-> normalized(t),
     stage |-> t.stage, word_idx |-> word_idx, global_idx |-> global_idx,
     char_start |-> char_start, char_end |-> char_start + Len(t.text)]

\* _rebuild, the loop over the tokens of one line: ws with the line's words
\* appended
RECURSIVE LineWords(_, _, _, _, _, _)
LineWords(toks, i, char_pos, word_idx, line_idx_, ws) ==
    IF i > Len(toks) THEN ws
    ELSE IF toks[i].is_word
         THEN LineWords(toks, i + 1, char_pos + Len(toks[i].text), word_idx + 1, line_idx_,
                        Append(ws, WordInfo(toks[i], line_idx_, word_idx, Len(ws), char_pos)))
         ELSE LineWords(toks, i + 1, char_pos + Len(toks[i].text), word_idx, line_idx_, ws)

\* _rebuild, the loop over iter_lines_annotated(text, known, learning)
RECURSIVE RebuildLoop(_, _, _, _, _, _)
RebuildLoop(ls, l, off, known, learning, ws) ==
    IF l > Len(ls) THEN ws
    ELSE RebuildLoop(ls, l + 1, NextOffset(off, ls[l]), known, learning,
                     LineWords(YieldLine(ls[l], known, learning, off), 1, 0, 0, l - 1, ws))

\* AnnotatedTextViewer._rebuild: the new self.words
rebuild(s, known, learning) == RebuildLoop(split_lines(s), 1, 0, known, learning, <<>>)

\* _rebuild, the TextLine widgets: out with the tokens of each line appended
RECURSIVE RebuildLinesLoop(_, _, _, _, _, _)
RebuildLinesLoop(ls, l, off, known, learning, out) ==
    IF l > Len(ls) THEN out
    ELSE RebuildLinesLoop(ls, l + 1, NextOffset(off, ls[l]), known, learning,
                          Append(out, YieldLine(ls[l], known, learning, off)))

\* AnnotatedTextViewer._rebuild: the new self.lines, each TextLine kept as
\* its tokens; the TextLine of line_idx is lines[line_idx + 1]
rebuild_lines(s, known, learning) ==
    RebuildLinesLoop(split_lines(s), 1, 0, known, learning, <<>>)

Viewer(ws, ls, cursor, selected) ==
    [lines |-> ls, words |-> ws, cursor_pos |-> cursor, selected_indices |-> selected]

\* variant of set_text that leaves the cursor where it is
set_text_keeps_cursor(v, s, known, learning) ==
    Viewer(rebuild(s, known, learning), rebuild_lines(s, known, learning),
           v.cursor_pos, {})

\* AnnotatedTextViewer.set_text
set_text(v, s, known, learning) ==
    Viewer(rebuild(s, known, learning), rebuild_lines(s, known, learning), 0, {})

\* an int | None result: <<>> is None and <<n>> is the int n
NoIndex == <<>>

\* TextLine.get_word_at_col, the loop from token i on
RECURSIVE GetWordAtColLoop(_, _, _, _, _)
GetWordAtColLoop(toks, i, pos, word_idx, col) ==
    IF i > Len(toks) THEN NoIndex
    ELSE LET token_end == pos + Len(toks[i].text)
         IN  IF toks[i].is_word
             THEN IF pos <= col /\ col < token_end THEN <<word_idx>>
                  ELSE GetWordAtColLoop(toks, i + 1, token_end, word_idx + 1, col)
             ELSE GetWordAtColLoop(toks, i + 1, token_end, word_idx, col)

\* TextLine.get_word_at_col
get_word_at_col(toks, col) == GetWordAtColLoop(toks, 1, 0, 0, col)

\* AnnotatedTextViewer._find_global_idx: the first word with that line and
\* word index
find_global_idx(v, line_idx_, word_idx) ==
    LET hits == {i \in 1..Len(v.words) :
                    v.words[i].line_idx = line_idx_ /\ v.words[i].word_idx = word_idx}
    IN  IF hits = {} THEN NoIndex
        ELSE <<v.words[CHOOSE i \in hits : \A j \in hits : i <= j].global_idx>>

\* AnnotatedTextViewer._on_line_click
on_line_click(v, line_idx_, word_idx) ==
    IF word_idx = NoIndex THEN v
    ELSE LET global_idx == find_global_idx(v, line_idx_, word_idx[1])
         IN  IF global_idx = NoIndex THEN v
             ELSE [v EXCEPT !.cursor_pos = global_idx[1]]

\* TextLine.mouse_event of the TextLine of line_idx: on_click is the
\* viewer's _on_line_click
mouse_event(v, line_idx_, event, col) ==
    IF event = "mouse press"
    THEN on_line_click(v, line_idx_, get_word_at_col(v.lines[line_idx_ + 1], col))
    ELSE v

Abs(n) == IF n < 0 THEN -n ELSE n

\* AnnotatedTextViewer._find_nearest_word_on_line; min() returns the first
\* of the closest words
find_nearest_word_on_line(v, line_idx_, target_char) ==
    LET on_line == {i \in 1..Len(v.words) : v.words[i].line_idx = line_idx_}
        Dist(i) == Abs(v.words[i].char_start - target_char)
        best == CHOOSE i \in on_line :
                    \A j \in on_line : Dist(i) < Dist(j) \/ (Dist(i) = Dist(j) /\ i <= j)
    IN  IF on_line = {} THEN v.cursor_pos ELSE v.words[best].global_idx

\* AnnotatedTextViewer.move_cursor
move_cursor(v, direction) ==
    IF v.words = <<>> THEN v
    ELSE
    LET current == v.words[v.cursor_pos + 1]
        on_line == {i \in 1..Len(v.words) : v.words[i].line_idx = current.line_idx}
        first == CHOOSE i \in on_line : \A j \in on_line : i <= j
        last == CHOOSE i \in on_line : \A j \in on_line : i >= j
        max_line == CHOOSE m \in {v.words[i].line_idx : i \in 1..Len(v.words)} :
                        \A i \in 1..Len(v.words) : v.words[i].line_idx <= m
        pos ==
            CASE direction \in {"left", "backward"} ->
                    IF v.cursor_pos > 0 THEN v.cursor_pos - 1 ELSE v.cursor_pos
              [] direction \in {"right", "forward"} ->
                    IF v.cursor_pos < Len(v.words) - 1 THEN v.cursor_pos + 1 ELSE v.cursor_pos
              [] direction = "up" ->
                    IF current.line_idx - 1 >= 0
                    THEN find_nearest_word_on_line(v, current.line_idx - 1, current.char_start)
                    ELSE v.cursor_pos
              [] direction = "down" ->
                    IF current.line_idx + 1 <= max_line
                    THEN find_nearest_word_on_line(v, current.line_idx + 1, current.char_start)
                    ELSE v.cursor_pos
              [] direction = "line_start" -> v.words[first].global_idx
              [] direction = "line_end" -> v.words[last].global_idx
              [] OTHER -> v.cursor_pos
    IN  [v EXCEPT !.cursor_pos = pos]

\* AnnotatedTextViewer.toggle_select_current
toggle_select_current(v) ==
    IF v.words = <<>> THEN v
    ELSE IF v.cursor_pos \in v.selected_indices
         THEN [v EXCEPT !.selected_indices = @ \ {v.cursor_pos}]
         ELSE [v EXCEPT !.selected_indices = @ \cup {v.cursor_pos}]

\* AnnotatedTextViewer.select_range_to
select_range_to(v, target_idx) ==
    IF v.words = <<>> THEN v
    ELSE LET start == IF v.cursor_pos < target_idx THEN v.cursor_pos ELSE target_idx
             end == IF v.cursor_pos > target_idx THEN v.cursor_pos ELSE target_idx
         IN  [v EXCEPT !.selected_indices = @ \cup (start..end),
                       !.cursor_pos = target_idx]

\* AnnotatedTextViewer.clear_selection
clear_selection(v) == [v EXCEPT !.selected_indices = {}]

-----------------------------------------------------------------------------
(* The state machine: a caller picks the arguments and makes one call      *)

\* a fresh database: table word_info_cache is empty
InitInfoCache ==
    /\ info_cache = {}
    /\ info_saved = [k \in {strip(lower(a)) : a \in InfoArgs} |-> <<>>]
    /\ info_result = [arg |-> <<>>, value |-> None]
    /\ info_cleared = 0
    /\ info_last_op = "init"

\* VocabularyManager.__init__
InitManager ==
    /\ vm_known_cache = NoCache
    /\ vm_learning_cache = NoCache
    /\ vm_result = None
    /\ vm_last_op = "init"
    /\ vm_last_args = <<>>

\* AnnotatedTextViewer.__init__
InitViewer ==
    /\ v_words = <<>>
    /\ v_lines = <<>>
    /\ cursor_pos = 0
    /\ selected_indices = {}
    /\ v_last_op = "init"

NoResult == <<>>

Init ==
    /\ text \in Texts
    /\ known_words = {}
    /\ learning_words = {}
    /\ pc = "idle"
    /\ tokens = NoResult
    /\ annotated = [tokens |-> <<>>, original |-> <<>>]
    /\ lines = <<>>
    /\ line_idx = 0
    /\ offset = 0
    /\ yielded = <<>>
    /\ stripped = NoResult
    /\ restripped = NoResult
    /\ words = NoResult
    /\ word_count = 0
    /\ percentage = ZeroFloat
    /\ unknown = NoResult
    /\ db_words = {}
    /\ db_last_write = [k \in {lower(w) : w \in DbWordArgs} |-> "none"]
    /\ db_last_op = "init"
    /\ db_last_args = <<>>
    /\ InitInfoCache
    /\ InitManager
    /\ InitViewer

\* strip_accents(text)
StripAccents ==
    /\ pc = "idle"
    /\ stripped' = strip_accents(text)
    /\ pc' = "strip_accents"
    /\ UNCHANGED <<text, known_words, learning_words, tokens, annotated,
                   lines, line_idx, offset, yielded, restripped>>
    /\ UNCHANGED agg_vars
    /\ UNCHANGED db_vars
    /\ UNCHANGED <<info_vars, vm_vars, viewer_vars>>

\* strip_accents applied to its own result
StripAccentsAgain ==
    /\ pc = "strip_accents"
    /\ restripped' = strip_accents(stripped)
    /\ pc' = "strip_accents_again"
    /\ UNCHANGED <<text, known_words, learning_words, tokens, annotated,
                   lines, line_idx, offset, yielded, stripped>>
    /\ UNCHANGED agg_vars
    /\ UNCHANGED db_vars
    /\ UNCHANGED <<info_vars, vm_vars, viewer_vars>>

\* TextProcessor.tokenize(text)
Tokenize ==
    /\ pc = "idle"
    /\ tokens' = tokenize(text)
    /\ pc' = "tokenize"
    /\ UNCHANGED <<text, known_words, learning_words, annotated,
                   lines, line_idx, offset, yielded, stripped, restripped>>
    /\ UNCHANGED agg_vars
    /\ UNCHANGED db_vars
    /\ UNCHANGED <<info_vars, vm_vars, viewer_vars>>

\* TextProcessor.annotate(text, known, learning)
Annotate ==
    /\ pc = "idle"
    /\ \E known \in SUBSET Pool, learning \in SUBSET Pool :
        /\ known_words' = known
        /\ learning_words' = learning
        /\ annotated' = annotate(text, known, learning)
    /\ pc' = "annotate"
    /\ UNCHANGED <<text, tokens, lines, line_idx, offset, yielded,
                   stripped, restripped>>
    /\ UNCHANGED agg_vars
    /\ UNCHANGED db_vars
    /\ UNCHANGED <<info_vars, vm_vars, viewer_vars>>

\* TextProcessor.iter_lines_annotated(text, known, learning), up to the loop
IterLinesStart ==
    /\ pc = "idle"
    /\ \E known \in SUBSET Pool, learning \in SUBSET Pool :
        /\ known_words' = known
        /\ learning_words' = learning
    /\ lines' = split_lines(text)
    /\ offset' = 0
    /\ line_idx' = 0
    /\ yielded' = <<>>
    /\ pc' = "iter_lines"
    /\ UNCHANGED <<text, tokens, annotated, stripped, restripped>>
    /\ UNCHANGED agg_vars
    /\ UNCHANGED db_vars
    /\ UNCHANGED <<info_vars, vm_vars, viewer_vars>>

\* the offset after the generator is resumed: it was suspended at the yield
\* of line number line_idx, so it first runs offset += len(line) + 1 for
\* that line; the first next() starts at the top of the function
ResumedOffset ==
    IF line_idx = 0 THEN offset ELSE NextOffset(offset, lines[line_idx])

\* one next() of the generator, from one yield to the next: annotate the
\* next line, shift its tokens and yield them
IterLinesNext ==
    /\ pc = "iter_lines"
    /\ line_idx < Len(lines)
    /\ yielded' = Append(yielded, YieldLine(lines[line_idx + 1], known_words,
                                            learning_words, ResumedOffset))
    /\ offset' = ResumedOffset
    /\ line_idx' = line_idx + 1
    /\ UNCHANGED <<text, known_words, learning_words, pc, tokens, annotated,
                   lines, stripped, restripped>>
    /\ UNCHANGED agg_vars
    /\ UNCHANGED db_vars
    /\ UNCHANGED <<info_vars, vm_vars, viewer_vars>>

\* the last next(): the generator adds the last line to the offset, leaves
\* the loop and is exhausted
IterLinesDone ==
    /\ pc = "iter_lines"
    /\ line_idx = Len(lines)
    /\ offset' = ResumedOffset
    /\ pc' = "iter_lines_done"
    /\ UNCHANGED <<text, known_words, learning_words, tokens, annotated,
                   lines, line_idx, yielded, stripped, restripped>>
    /\ UNCHANGED agg_vars
    /\ UNCHANGED db_vars
    /\ UNCHANGED <<info_vars, vm_vars, viewer_vars>>

\* TextProcessor.extract_words(text)
ExtractWords ==
    /\ pc = "idle"
    /\ words' = extract_words(text)
    /\ pc' = "extract_words"
    /\ UNCHANGED <<text, known_words, learning_words, tokens, annotated,
                   lines, line_idx, offset, yielded, stripped, restripped,
                   word_count, percentage, unknown>>
    /\ UNCHANGED db_vars
    /\ UNCHANGED <<info_vars, vm_vars, viewer_vars>>

\* TextProcessor.count_words(text), as a first call or after extract_words
CountWords ==
    /\ pc \in {"idle", "extract_words"}
    /\ word_count' = count_words(text)
    /\ pc' = IF pc = "idle" THEN "count_words" ELSE "extract_then_count"
    /\ UNCHANGED <<text, known_words, learning_words, tokens, annotated,
                   lines, line_idx, offset, yielded, stripped, restripped,
                   words, percentage, unknown>>
    /\ UNCHANGED db_vars
    /\ UNCHANGED <<info_vars, vm_vars, viewer_vars>>

\* TextProcessor.calculate_known_percentage(text, known)
CalculateKnownPercentage ==
    /\ pc = "idle"
    /\ \E known \in SUBSET Pool :
        /\ known_words' = known
        /\ percentage' = calculate_known_percentage(text, known)
    /\ pc' = "calculate_known_percentage"
    /\ UNCHANGED <<text, learning_words, tokens, annotated,
                   lines, line_idx, offset, yielded, stripped, restripped,
                   words, word_count, unknown>>
    /\ UNCHANGED db_vars
    /\ UNCHANGED <<info_vars, vm_vars, viewer_vars>>

\* TextProcessor.get_unknown_words(text, known, learning)
GetUnknownWords ==
    /\ pc = "idle"
    /\ \E known \in SUBSET Pool, learning \in SUBSET Pool :
        /\ known_words' = known
        /\ learning_words' = learning
        /\ unknown' = get_unknown_words(text, known, learning)
    /\ pc' = "get_unknown_words"
    /\ UNCHANGED <<text, tokens, annotated,
                   lines, line_idx, offset, yielded, stripped, restripped,
                   words, word_count, percentage>>
    /\ UNCHANGED db_vars
    /\ UNCHANGED <<info_vars, vm_vars, viewer_vars>>

Next ==
    \/ ExtractWords
    \/ CountWords
    \/ CalculateKnownPercentage
    \/ GetUnknownWords
    \/ StripAccents
    \/ StripAccentsAgain
    \/ Tokenize
    \/ Annotate
    \/ IterLinesStart
    \/ IterLinesNext
    \/ IterLinesDone

Spec == Init /\ [][Next]_vars

-----------------------------------------------------------------------------
(* The vocabulary store: any sequence of Database calls on table words     *)

\* a fresh database file after _init_db; no text operation is under way
InitDb ==
    /\ text = <<>>
    /\ known_words = {}
    /\ learning_words = {}
    /\ pc = "idle"
    /\ tokens = NoResult
    /\ annotated = [tokens |-> <<>>, original |-> <<>>]
    /\ lines = <<>>
    /\ line_idx = 0
    /\ offset = 0
    /\ yielded = <<>>
    /\ stripped = NoResult
    /\ restripped = NoResult
    /\ words = NoResult
    /\ word_count = 0
    /\ percentage = ZeroFloat
    /\ unknown = NoResult
    /\ db_words = {}
    /\ db_last_write = [k \in {lower(w) : w \in DbWordArgs} |-> "none"]
    /\ db_last_op = "init"
    /\ db_last_args = <<>>
    /\ InitInfoCache
    /\ InitManager
    /\ InitViewer

\* Database.set_word_stage(w, s)
DbSetWordStage ==
    \E w \in DbWordArgs, s \in Stages :
        /\ db_words' = set_word_stage(db_words, w, s)
        /\ db_last_write' = [db_last_write EXCEPT ![lower(w)] = s]
        /\ db_last_op' = "set_word_stage"
        /\ db_last_args' = <<>>
        /\ UNCHANGED core_vars
        /\ UNCHANGED <<info_vars, vm_vars, viewer_vars>>

\* Database.bulk_set_stage(ws, s)
DbBulkSetStage ==
    \E ws \in ListsUpTo(DbWordArgs, MaxBulk), s \in Stages :
        /\ db_words' = bulk_set_stage(db_words, ws, s)
        /\ db_last_write' = [k \in DOMAIN db_last_write |->
                                IF \E i \in 1..Len(ws) : lower(ws[i]) = k
                                THEN s ELSE db_last_write[k]]
        /\ db_last_op' = "bulk_set_stage"
        /\ db_last_args' = <<>>
        /\ UNCHANGED core_vars
        /\ UNCHANGED <<info_vars, vm_vars, viewer_vars>>

\* Database.save_word(Word(word=w, stage=s, translation=t, notes=n))
DbSaveWord ==
    \E w \in DbWordArgs, s \in Stages,
       t \in Translations \cup {None}, n \in NotesArgs :
        /\ db_words' = save_word(db_words, Row(w, s, t, n))
        /\ db_last_write' = [db_last_write EXCEPT ![lower(w)] = s]
        /\ db_last_op' = "save_word"
        /\ db_last_args' = <<>>
        /\ UNCHANGED core_vars
        /\ UNCHANGED <<info_vars, vm_vars, viewer_vars>>

\* Database.set_word_translation(w, t, n)
DbSetWordTranslation ==
    \E w \in DbWordArgs, t \in Translations, n \in NotesArgs :
        /\ db_words' = set_word_translation(db_words, w, t, n)
        /\ db_last_op' = "set_word_translation"
        /\ db_last_args' = <<w, t>>
        /\ UNCHANGED db_last_write
        /\ UNCHANGED core_vars
        /\ UNCHANGED <<info_vars, vm_vars, viewer_vars>>

\* Database.delete_word(w)
DbDeleteWord ==
    \E w \in DbWordArgs :
        /\ db_words' = delete_word(db_words, w)
        /\ db_last_write' = [db_last_write EXCEPT ![lower(w)] = "none"]
        /\ db_last_op' = "delete_word"
        /\ db_last_args' = <<>>
        /\ UNCHANGED core_vars
        /\ UNCHANGED <<info_vars, vm_vars, viewer_vars>>

NextDb ==
    \/ DbSetWordStage
    \/ DbBulkSetStage
    \/ DbSaveWord
    \/ DbSetWordTranslation
    \/ DbDeleteWord

SpecDb == InitDb /\ [][NextDb]_vars

-----------------------------------------------------------------------------
(* The word-info cache: any sequence of calls on table word_info_cache     *)

InitInfo == InitDb

\* Database.save_word_info(a, ty, c)
DbSaveWordInfo ==
    \E a \in InfoArgs, ty \in InfoTypes, c \in Contents :
        /\ Len(info_saved[strip(lower(a))]) < MaxSaves
        /\ info_cache' = save_word_info(info_cache, a, ty, c)
        /\ info_saved' = [info_saved EXCEPT ![strip(lower(a))] = Append(@, c)]
        /\ info_last_op' = "save_word_info"
        /\ UNCHANGED <<info_result, info_cleared>>
        /\ UNCHANGED <<core_vars, db_vars, vm_vars, viewer_vars>>

\* Database.get_word_info(a)
DbGetWordInfo ==
    \E a \in InfoArgs :
        /\ info_result' = [arg |-> a, value |-> get_word_info(info_cache, a)]
        /\ info_last_op' = "get_word_info"
        /\ UNCHANGED <<info_cache, info_saved, info_cleared>>
        /\ UNCHANGED <<core_vars, db_vars, vm_vars, viewer_vars>>

\* Database.clear_word_info_cache()
DbClearWordInfoCache ==
    /\ info_cache' = clear_word_info_cache(info_cache).rows
    /\ info_cleared' = clear_word_info_cache(info_cache).rowcount
    /\ info_saved' = [k \in DOMAIN info_saved |-> <<>>]
    /\ info_last_op' = "clear_word_info_cache"
    /\ UNCHANGED info_result
    /\ UNCHANGED <<core_vars, db_vars, vm_vars, viewer_vars>>

NextInfo ==
    \/ DbSaveWordInfo
    \/ DbGetWordInfo
    \/ DbClearWordInfoCache

SpecInfo == InitInfo /\ [][NextInfo]_vars

-----------------------------------------------------------------------------
(* The VocabularyManager: any sequence of its calls, a text on screen      *)

\* the manager of the current state
Vm == Manager(db_words, vm_known_cache, vm_learning_cache)

\* the manager becomes vm, the call op(args) returned result
VmBecomes(vm, op, args, result) ==
    /\ db_words' = vm.db
    /\ vm_known_cache' = vm.known_cache
    /\ vm_learning_cache' = vm.learning_cache
    /\ vm_last_op' = op
    /\ vm_last_args' = args
    /\ vm_result' = result
    /\ UNCHANGED <<db_last_write, db_last_op, db_last_args>>
    /\ UNCHANGED <<core_vars, info_vars, viewer_vars>>

InitVm ==
    /\ text \in VmTexts
    /\ known_words = {}
    /\ learning_words = {}
    /\ pc = "idle"
    /\ tokens = NoResult
    /\ annotated = [tokens |-> <<>>, original |-> <<>>]
    /\ lines = <<>>
    /\ line_idx = 0
    /\ offset = 0
    /\ yielded = <<>>
    /\ stripped = NoResult
    /\ restripped = NoResult
    /\ words = NoResult
    /\ word_count = 0
    /\ percentage = ZeroFloat
    /\ unknown = NoResult
    /\ db_words = {}
    /\ db_last_write = [k \in {lower(w) : w \in DbWordArgs} |-> "none"]
    /\ db_last_op = "init"
    /\ db_last_args = <<>>
    /\ InitInfoCache
    /\ InitManager
    /\ InitViewer

VmGetKnownWords ==
    LET r == vm_get_known_words(Vm)
    IN  VmBecomes(r.vm, "get_known_words", <<>>, r.result)

VmGetLearningWords ==
    LET r == vm_get_learning_words(Vm)
    IN  VmBecomes(r.vm, "get_learning_words", <<>>, r.result)

VmGetStage ==
    \E w \in VmQueryArgs :
        LET r == vm_get_stage(Vm, w)
        IN  VmBecomes(r.vm, "get_stage", <<w>>, r.result)

VmSetStage ==
    \E w \in VmWordArgs, s \in Stages :
        VmBecomes(vm_set_stage(Vm, w, s), "set_stage", <<>>, None)

VmBulkSetStage ==
    \E ws \in VmBulkArgs, s \in Stages :
        VmBecomes(vm_bulk_set_stage(Vm, ws, s), "bulk_set_stage", <<ws, s>>, None)

VmMarkKnown ==
    \E w \in VmWordArgs :
        VmBecomes(mark_known(Vm, w), "mark_known", <<>>, None)

VmMarkLearning ==
    \E w \in VmWordArgs :
        VmBecomes(mark_learning(Vm, w), "mark_learning", <<>>, None)

VmSetTranslation ==
    \E w \in VmWordArgs :
        VmBecomes(vm_set_translation(Vm, w, "t1", None), "set_translation", <<>>, None)

VmAddWord ==
    \E w \in VmWordArgs, s \in Stages :
        VmBecomes(vm_add_word(Vm, Row(w, s, None, None)), "add_word", <<>>, None)

VmDeleteWord ==
    \E w \in VmWordArgs :
        LET r == vm_delete_word(Vm, w)
        IN  VmBecomes(r.vm, "delete_word", <<>>, r.result)

NextVm ==
    \/ VmGetKnownWords
    \/ VmGetLearningWords
    \/ VmGetStage
    \/ VmSetStage
    \/ VmBulkSetStage
    \/ VmMarkKnown
    \/ VmMarkLearning
    \/ VmSetTranslation
    \/ VmAddWord
    \/ VmDeleteWord

SpecVm == InitVm /\ [][NextVm]_vars

-----------------------------------------------------------------------------
(* The AnnotatedTextViewer: any sequence of its calls                      *)

\* the viewer of the current state
TheViewer == Viewer(v_words, v_lines, cursor_pos, selected_indices)

\* the viewer becomes v after the call op
ViewerBecomes(v, op) ==
    /\ v_words' = v.words
    /\ v_lines' = v.lines
    /\ cursor_pos' = v.cursor_pos
    /\ selected_indices' = v.selected_indices
    /\ v_last_op' = op
    /\ UNCHANGED <<core_vars, db_vars, info_vars, vm_vars>>

InitViewerSpec == InitDb

ViewerSetText ==
    \E s \in ViewerTexts, known \in ViewerKnownArgs :
        ViewerBecomes(set_text(TheViewer, s, known, {}), "set_text")

ViewerMoveCursor ==
    \E direction \in Directions :
        ViewerBecomes(move_cursor(TheViewer, direction), "move_cursor")

ViewerToggleSelectCurrent ==
    ViewerBecomes(toggle_select_current(TheViewer), "toggle_select_current")

\* select_range_to(t) with 0 <= t < len(words), and t = 0 on an empty list
ViewerSelectRangeTo ==
    \E target_idx \in 0..(IF v_words = <<>> THEN 0 ELSE Len(v_words) - 1) :
        ViewerBecomes(select_range_to(TheViewer, target_idx), "select_range_to")

ViewerClearSelection ==
    ViewerBecomes(clear_selection(TheViewer), "clear_selection")

\* a mouse event on one of the viewer's TextLine widgets, at column col
ViewerMouseEvent ==
    \E l \in 1..Len(v_lines), event \in MouseEvents, col \in 0..MaxViewLen :
        ViewerBecomes(mouse_event(TheViewer, l - 1, event, col), "mouse_event")

NextViewer ==
    \/ ViewerSetText
    \/ ViewerMoveCursor
    \/ ViewerToggleSelectCurrent
    \/ ViewerSelectRangeTo
    \/ ViewerClearSelection
    \/ ViewerMouseEvent

SpecViewer == InitViewerSpec /\ [][NextViewer]_vars

-----------------------------------------------------------------------------
(* Vocabulary of the properties                                            *)

\* the text fields of a token list, concatenated in list order
RECURSIVE ConcatTexts(_)
ConcatTexts(toks) ==
    IF toks = <<>> THEN <<>> ELSE Head(toks).text \o ConcatTexts(Tail(toks))

\* the Ukrainian Cyrillic letters of the tokenizer's contract:
\* а-я, і, ї, є, ґ in either case
UkrainianLetters ==
    (1072..1103) \cup (1040..1071) \cup {1110, 1111, 1108, 1169, 1030, 1031, 1028, 1168}

Apostrophes == {39, 700}

CombiningMarks == 768..879

InsideWordChars == UkrainianLetters \cup Apostrophes \cup CombiningMarks

\* position p (1-based) of s continues a run that a Ukrainian letter began
HasBaseLetter(s, p) ==
    \E j \in 1..(p - 1) :
        /\ s[j] \in UkrainianLetters
        /\ \A k \in j..p : s[k] \in InsideWordChars

\* the tokens of toks that cover the 1-based position p
Covering(toks, p) == {i \in 1..Len(toks) : toks[i].start < p /\ p <= toks[i].end}

\* s with every combining mark deleted and nothing else touched
RECURSIVE WithoutMarks(_)
WithoutMarks(s) ==
    IF s = <<>> THEN <<>>
    ELSE IF Head(s) \in CombiningMarks THEN WithoutMarks(Tail(s))
         ELSE <<Head(s)>> \o WithoutMarks(Tail(s))

\* 1-based positions of the newline characters of s, and the i-th line of s
NewlinePositions(s) == {p \in 1..Len(s) : s[p] = 10}

LineStart(s, i) ==
    IF i = 1 THEN 1
    ELSE 1 + CHOOSE p \in NewlinePositions(s) :
                 Cardinality({q \in NewlinePositions(s) : q < p}) = i - 2

LineEnd(s, i) ==
    IF i = Cardinality(NewlinePositions(s)) + 1 THEN Len(s)
    ELSE (CHOOSE p \in NewlinePositions(s) :
              Cardinality({q \in NewlinePositions(s) : q < p}) = i - 1) - 1

LineOf(s, i) == SubSeq(s, LineStart(s, i), LineEnd(s, i))

IterLinesRunning == pc \in {"iter_lines", "iter_lines_done"}

-----------------------------------------------------------------------------
(* Properties                                                              *)

\* C1: concatenating the text fields of tokenize(text), in list order,
\* gives back text exactly.
C1_Reconstruction ==
    pc = "tokenize" => ConcatTexts(tokens) = text

C1_Witness ==
    /\ pc = "tokenize"
    /\ Len(tokens) = 3
    /\ ~tokens[1].is_word /\ tokens[2].is_word /\ ~tokens[3].is_word

\* C2: the tokens of tokenize(text) are contiguous and cover the input: the
\* first starts at 0, the last ends at len(text), each token ends where the
\* next starts, and there are no tokens exactly when text is empty.
C2_Contiguity ==
    pc = "tokenize" =>
        /\ (tokens = <<>>) <=> (text = <<>>)
        /\ tokens # <<>> =>
            /\ tokens[1].start = 0
            /\ tokens[Len(tokens)].end = Len(text)
        /\ \A i \in 1..(Len(tokens) - 1) : tokens[i].end = tokens[i + 1].start

C2_Witness ==
    /\ pc = "tokenize"
    /\ Len(tokens) >= 2
    /\ ~tokens[1].is_word
    /\ Len(text) = MaxLen

\* C3: annotate gives a word token the stage KNOWN when its normalized form
\* is in known, else LEARNING when it is in learning, else NEW; a word in
\* both sets is KNOWN.
C3_StagePrecedence ==
    pc = "annotate" =>
        \A i \in 1..Len(annotated.tokens) :
            LET t == annotated.tokens[i] IN
            t.is_word =>
                /\ normalized(t) \in known_words => t.stage = "known"
                /\ (normalized(t) \notin known_words /\ normalized(t) \in learning_words)
                      => t.stage = "learning"
                /\ (normalized(t) \notin known_words /\ normalized(t) \notin learning_words)
                      => t.stage = "new"

C3_Witness ==
    /\ pc = "annotate"
    /\ \E i \in 1..Len(annotated.tokens) :
        /\ annotated.tokens[i].is_word
        /\ normalized(annotated.tokens[i]) \in known_words \cap learning_words
        /\ annotated.tokens[i].stage = "known"

\* C4: every non-word token of annotate and of iter_lines_annotated has stage
\* NEW, whatever the sets hold, also when its own text is in one of them.
C4_NeutralNonWords ==
    /\ pc = "annotate" =>
        \A i \in 1..Len(annotated.tokens) :
            ~annotated.tokens[i].is_word => annotated.tokens[i].stage = "new"
    /\ IterLinesRunning =>
        \A l \in 1..Len(yielded) : \A i \in 1..Len(yielded[l]) :
            ~yielded[l][i].is_word => yielded[l][i].stage = "new"

C4_Witness ==
    /\ pc = "annotate"
    /\ \E i \in 1..Len(annotated.tokens) :
        /\ ~annotated.tokens[i].is_word
        /\ annotated.tokens[i].text \in known_words
        /\ annotated.tokens[i].stage = "new"

\* C5: the start and end of every token yielded by iter_lines_annotated are
\* offsets into the whole text: the offsets within the line plus the lengths
\* of the earlier lines plus one per earlier newline, so text[start:end] is
\* the token's text on every line.
C5_AbsoluteOffsets ==
    IterLinesRunning =>
        \A l \in 1..Len(yielded) :
            LET in_line == tokenize(LineOf(text, l)) IN
            /\ Len(yielded[l]) = Len(in_line)
            /\ \A i \in 1..Len(yielded[l]) :
                LET t == yielded[l][i] IN
                /\ SubSeq(text, t.start + 1, t.end) = t.text
                /\ t.start = in_line[i].start + (LineStart(text, l) - 1)
                /\ t.end = in_line[i].end + (LineStart(text, l) - 1)

C5_Witness ==
    /\ IterLinesRunning
    /\ Len(yielded) >= 2
    /\ yielded[1] # <<>>
    /\ yielded[2] # <<>>
    /\ yielded[2][1].start = Len(yielded[1][Len(yielded[1])].text) + 1

\* C6: iter_lines_annotated yields one token list per line of text split on
\* '\n', in line order: newlines + 1 lists, a final empty list after a
\* trailing newline, and one empty list for the empty text.
C6_OneListPerLine ==
    pc = "iter_lines_done" =>
        /\ Len(yielded) = Cardinality(NewlinePositions(text)) + 1
        /\ \A l \in 1..Len(yielded) : ConcatTexts(yielded[l]) = LineOf(text, l)
        /\ (text # <<>> /\ text[Len(text)] = 10) => yielded[Len(yielded)] = <<>>
        /\ text = <<>> => yielded = << <<>> >>

C6_Witness ==
    /\ pc = "iter_lines_done"
    /\ text # <<>>
    /\ text[Len(text)] = 10
    /\ Len(yielded) = 2
    /\ yielded[1] # <<>>

\* C7: strip_accents is idempotent: applying it to its own result changes
\* nothing.
C7_Idempotent ==
    pc = "strip_accents_again" => restripped = stripped

C7_Witness ==
    /\ pc = "strip_accents_again"
    /\ \E i \in 1..Len(text) : text[i] \in CombiningMarks
    /\ stripped # text
    /\ restripped = stripped

\* C8: strip_accents leaves a string with no combining mark unchanged, the
\* precomposed letters й and ї included.
C8_BaseLettersUnaltered ==
    (pc = "strip_accents" /\ \A i \in 1..Len(text) : text[i] \notin CombiningMarks)
        => stripped = text

\* C9: strip_accents(text) holds no combining mark and is text with its
\* combining marks deleted, the other characters kept in order; the empty
\* string gives the empty string.
C9_MarksRemovedOnly ==
    pc = "strip_accents" =>
        /\ \A i \in 1..Len(stripped) : stripped[i] \notin CombiningMarks
        /\ stripped = WithoutMarks(text)
        /\ text = <<>> => stripped = <<>>

\* C10: a word token of tokenize starts with a Ukrainian Cyrillic letter and
\* holds only such letters, apostrophes and combining marks; every other
\* character, and every combining mark with no base letter before it, lies
\* in a non-word token.
C10_WordTokensUkrainianOnly ==
    pc = "tokenize" =>
        /\ \A i \in 1..Len(tokens) :
            tokens[i].is_word =>
                /\ tokens[i].text # <<>>
                /\ tokens[i].text[1] \in UkrainianLetters
                /\ \A k \in 1..Len(tokens[i].text) : tokens[i].text[k] \in InsideWordChars
        /\ \A p \in 1..Len(text) :
            (\/ text[p] \notin InsideWordChars
             \/ (text[p] \in CombiningMarks /\ ~HasBaseLetter(text, p)))
                => /\ Covering(tokens, p) # {}
                   /\ \A i \in Covering(tokens, p) : ~tokens[i].is_word

C10_Witness ==
    /\ pc = "tokenize"
    /\ \E i \in 1..Len(tokens) : tokens[i].is_word /\ Len(tokens[i].text) >= 2
    /\ \E p \in 1..Len(text) : text[p] \in CombiningMarks /\ ~HasBaseLetter(text, p)

-----------------------------------------------------------------------------
(* Properties of the tokenizer's matches, of annotate and of the aggregator *)

\* the indices of the word tokens of a token list
WordIndices(toks) == {i \in 1..Len(toks) : toks[i].is_word}

\* the word tokens of toks, in order
RECURSIVE WordTokens(_)
WordTokens(toks) ==
    IF toks = <<>> THEN <<>>
    ELSE IF Head(toks).is_word THEN <<Head(toks)>> \o WordTokens(Tail(toks))
         ELSE WordTokens(Tail(toks))

\* the set of elements of a list
Elements(l) == {l[i] : i \in 1..Len(l)}

\* C11: in tokenize(text) word tokens are maximal matches and each maximal
\* run of other text is one non-word token: consecutive tokens are never
\* both words nor both non-words.
C11_StrictAlternation ==
    pc = "tokenize" =>
        /\ \A i \in 1..(Len(tokens) - 1) : tokens[i].is_word # tokens[i + 1].is_word
        /\ \A i \in 1..Len(tokens) :
            IF tokens[i].is_word
            THEN \* the match cannot be extended to the right or to the left
                 /\ tokens[i].end < Len(text) => text[tokens[i].end + 1] \notin InsideWordChars
                 /\ tokens[i].start > 0 =>
                        /\ text[tokens[i].start] \notin UkrainianLetters
                        /\ ~HasBaseLetter(text, tokens[i].start)
            ELSE \* no match begins inside a non-word token
                 \A k \in 1..Len(tokens[i].text) : tokens[i].text[k] \notin UkrainianLetters

C11_Witness ==
    /\ pc = "tokenize"
    /\ Len(tokens) = 2
    /\ tokens[1].is_word
    /\ Len(tokens[1].text) = 2
    /\ tokens[1].text[2] \in UkrainianLetters
    /\ ~tokens[2].is_word

\* C12: annotate gives one AnnotatedToken per token of tokenize(text), in
\* order, with the same text, start, end and is_word (the spelling as
\* written, never the normalized form), and original is the input text.
C12_AnnotatePreservesTokens ==
    pc = "annotate" =>
        LET toks == tokenize(text) IN
        /\ annotated.original = text
        /\ Len(annotated.tokens) = Len(toks)
        /\ \A i \in 1..Len(toks) :
            /\ annotated.tokens[i].text = toks[i].text
            /\ annotated.tokens[i].start = toks[i].start
            /\ annotated.tokens[i].end = toks[i].end
            /\ annotated.tokens[i].is_word = toks[i].is_word
            /\ annotated.tokens[i].text =
                   SubSeq(text, annotated.tokens[i].start + 1, annotated.tokens[i].end)

C12_Witness ==
    /\ pc = "annotate"
    /\ Len(annotated.tokens) >= 2
    /\ \E i \in 1..Len(annotated.tokens) :
        /\ annotated.tokens[i].is_word
        /\ normalized(annotated.tokens[i]) # annotated.tokens[i].text
        /\ annotated.tokens[i].stage = "known"

\* C13: matching ignores only case and stress marks: a word token whose text,
\* lowercased and with its combining marks deleted, is in known is KNOWN, and
\* otherwise LEARNING when it is in learning; also for words with й or ї.
C13_MatchIgnoresCaseAndStressOnly ==
    pc = "annotate" =>
        \A i \in 1..Len(annotated.tokens) :
            LET t == annotated.tokens[i]
                key == WithoutMarks(lower(t.text))
            IN  t.is_word =>
                    /\ key \in known_words => t.stage = "known"
                    /\ (key \notin known_words /\ key \in learning_words)
                          => t.stage = "learning"

\* the float x is exactly the rational num / den (num >= 0, den > 0, x < 2^53)
IsExactly(x, num, den) ==
    IF x = ZeroFloat THEN num = 0
    ELSE MulSmall(Significand(x), den) = ShiftLeft(Digits(num), 1075 - x.exponent)

\* the float x is the rational num / den up to a relative error of 2^-51
IsWithinRounding(x, num, den) ==
    IF x = ZeroFloat THEN num = 0
    ELSE LET got == MulSmall(Significand(x), den)
             want == ShiftLeft(Digits(num), 1075 - x.exponent)
         IN  /\ DigitsLeq(ShiftLeft(got, 51), AddDigits(ShiftLeft(want, 51), want))
             /\ DigitsLeq(ShiftLeft(want, 51), AddDigits(ShiftLeft(got, 51), want))

\* C14 as stated: calculate_known_percentage(text, known) equals
\* 100 * K / N, with N the word-token occurrences of text and K those whose
\* normalized form is in known; it lies in [0, 100] and is exactly 0.0 when
\* text has no word token.
C14_KnownPercentageExact ==
    pc = "calculate_known_percentage" =>
        LET toks == tokenize(text)
            N == Cardinality(WordIndices(toks))
            K == Cardinality({i \in WordIndices(toks) : normalized(toks[i]) \in known_words})
        IN  /\ N > 0 => IsExactly(percentage, 100 * K, N)
            /\ N = 0 => percentage = ZeroFloat
            /\ FloatLeq(ZeroFloat, percentage)
            /\ FloatLeq(percentage, FloatOfInt(100))

\* C14, amended: calculate_known_percentage(text, known) is the float
\* (K / N) * 100, with N the word-token occurrences of text and K those
\* whose normalized form is in known: it equals 100 * K / N up to a
\* relative error of 2^-51 and exactly when K = 0 or K = N; it lies in
\* [0, 100] and is exactly 0.0 when text has no word token.
C14_KnownPercentage ==
    pc = "calculate_known_percentage" =>
        LET toks == tokenize(text)
            N == Cardinality(WordIndices(toks))
            K == Cardinality({i \in WordIndices(toks) : normalized(toks[i]) \in known_words})
        IN  /\ N > 0 => IsWithinRounding(percentage, 100 * K, N)
            /\ (N > 0 /\ K = 0) => percentage = ZeroFloat
            /\ (N > 0 /\ K = N) => percentage = FloatOfInt(100)
            /\ N = 0 => percentage = ZeroFloat
            /\ FloatLeq(ZeroFloat, percentage)
            /\ FloatLeq(percentage, FloatOfInt(100))

\* two of three words are known and the float is not two thirds of 100
C14_Witness ==
    /\ pc = "calculate_known_percentage"
    /\ Cardinality(WordIndices(tokenize(text))) = 3
    /\ Len(tokenize(text)) = 5
    /\ Cardinality({i \in WordIndices(tokenize(text)) :
                        normalized(tokenize(text)[i]) \in known_words}) = 2
    /\ ~IsExactly(percentage, 200, 3)

\* C15: get_unknown_words(text, known, learning) is strictly ascending and
\* its elements are exactly the normalized forms of the words of text that
\* are in neither set.
C15_UnknownWordsSorted ==
    pc = "get_unknown_words" =>
        LET toks == tokenize(text) IN
        /\ \A i \in 1..(Len(unknown) - 1) : StrLess(unknown[i], unknown[i + 1])
        /\ Elements(unknown) =
              {w \in {normalized(toks[i]) : i \in WordIndices(toks)} :
                  w \notin known_words /\ w \notin learning_words}

C15_Witness ==
    /\ pc = "get_unknown_words"
    /\ Len(unknown) = 2
    /\ Len(extract_words(text)) = 2
    /\ extract_words(text)[1] = unknown[2]

\* C16: aggregation and annotation classify alike: the occurrences that
\* calculate_known_percentage counts as known are as many as the word tokens
\* annotate marks KNOWN, and get_unknown_words holds exactly the normalized
\* forms of the word tokens annotate marks NEW.
C16_AggregationMatchesAnnotation ==
    /\ pc = "calculate_known_percentage" =>
        \A learning \in SUBSET Pool :
            LET ann == annotate(text, known_words, learning).tokens
                marked == {i \in WordIndices(ann) : ann[i].stage = "known"}
            IN  IF WordIndices(ann) = {}
                THEN percentage = ZeroFloat
                ELSE percentage =
                        FloatMul(IntTrueDiv(Cardinality(marked),
                                            Cardinality(WordIndices(ann))),
                                 FloatOfInt(100))
    /\ pc = "get_unknown_words" =>
        LET ann == annotate(text, known_words, learning_words).tokens
        IN  Elements(unknown) =
                {normalized(ann[i]) : i \in {j \in WordIndices(ann) : ann[j].stage = "new"}}

C16_Witness ==
    /\ pc = "calculate_known_percentage"
    /\ percentage = FloatOfInt(100)
    /\ Len(tokenize(text)) = 2
    /\ \E i \in 1..Len(text) : text[i] \in CombiningMarks

\* C17: extract_words(text) lists the normalized forms of the word tokens of
\* tokenize(text) in document order, and count_words(text) is the number of
\* those word tokens, which is len(extract_words(text)).
C17_ExtractAndCount ==
    /\ pc \in {"extract_words", "extract_then_count"} =>
        LET wt == WordTokens(tokenize(text)) IN
        /\ Len(words) = Len(wt)
        /\ \A i \in 1..Len(wt) : words[i] = normalized(wt[i])
    /\ pc \in {"count_words", "extract_then_count"} =>
        word_count = Cardinality(WordIndices(tokenize(text)))
    /\ pc = "extract_then_count" => word_count = Len(words)

C17_Witness ==
    /\ pc = "extract_then_count"
    /\ word_count = 2
    /\ Len(tokenize(text)) = 3
    /\ \E i \in 1..Len(words) : words[i] # WordTokens(tokenize(text))[i].text

-----------------------------------------------------------------------------
(* Properties of the vocabulary store                                      *)

\* every string a row of words can hold
DbKeys == {lower(w) : w \in DbWordArgs}

\* C19: after any sequence of set_word_stage, bulk_set_stage and save_word
\* calls get_word(w) returns a word at the stage of the latest write to
\* lowercase(w); a write to a word not stored creates it, and
\* bulk_set_stage(ws, s) leaves every word of ws at stage s (each word of ws
\* has s as its latest write).
C19_LastStageWriteWins ==
    \A w \in DbWordArgs \cup DbKeys :
        db_last_write[lower(w)] # "none" =>
            /\ get_word(db_words, w) # NoWord
            /\ get_word(db_words, w).stage = db_last_write[lower(w)]

C19_Witness ==
    /\ db_last_op = "bulk_set_stage"
    /\ db_last_write[<<CYR_SHORT_I>>] = "learning"
    /\ db_last_write[<<LATIN_A>>] = "learning"
    /\ db_last_write[<<CYR_I, ACUTE>>] = "known"
    /\ get_word(db_words, <<CYR_CAP_SHORT_I>>) # NoWord
    /\ get_word(db_words, <<CYR_CAP_SHORT_I>>).translation = "t1"
    /\ get_word(db_words, <<CYR_CAP_SHORT_I>>).stage = "learning"
    /\ get_word(db_words, <<LATIN_CAP_A>>).stage = "learning"

\* C20: get_known_words_set() is exactly the stored words at stage KNOWN and
\* get_learning_words_set() exactly those at stage LEARNING; words at stage
\* NEW and deleted words are in neither, and the two sets are disjoint.
C20_StageSetsExactAndDisjoint ==
    LET StoredAt(s) == {k \in DbKeys : /\ get_word(db_words, k) # NoWord
                                       /\ get_word(db_words, k).stage = s}
        known == get_known_words_set(db_words)
        learning == get_learning_words_set(db_words)
    IN  /\ known = StoredAt("known")
        /\ learning = StoredAt("learning")
        /\ known \cap learning = {}
        /\ \A k \in StoredAt("new") : k \notin known \cup learning
        /\ \A k \in DbKeys :
              get_word(db_words, k) = NoWord => k \notin known \cup learning

C20_Witness ==
    /\ db_last_op = "delete_word"
    /\ get_word(db_words, <<CYR_I, ACUTE>>) = NoWord
    /\ get_known_words_set(db_words) # {}
    /\ get_learning_words_set(db_words) # {}

-----------------------------------------------------------------------------
(* The store's word strings, statistics and translations                   *)

\* C21: after any sequence of set_word_stage, bulk_set_stage and save_word
\* calls with arbitrary word arguments, every string of get_known_words_set()
\* and get_learning_words_set() is equal to its own normalized form
\* (lowercase and accent-stripped).
C21_StoreReturnsNormalizedForms ==
    \A w \in get_known_words_set(db_words) \cup get_learning_words_set(db_words) :
        strip_accents(lower(w)) = w

\* C22: get_vocabulary_stats() has an entry for each of the three stages,
\* each entry is the number of stored words at that stage, and the entries
\* sum to the number of stored words.
C22_StatsCountStoredWords ==
    LET stats == get_vocabulary_stats(db_words)
        StoredAt(s) == {k \in DbKeys : /\ get_word(db_words, k) # NoWord
                                       /\ get_word(db_words, k).stage = s}
        Stored == {k \in DbKeys : get_word(db_words, k) # NoWord}
    IN  /\ DOMAIN stats = {"new", "learning", "known"}
        /\ \A s \in DOMAIN stats : stats[s] = Cardinality(StoredAt(s))
        /\ stats["new"] + stats["learning"] + stats["known"] = Cardinality(Stored)

C22_Witness ==
    /\ get_vocabulary_stats(db_words)["known"] = 2
    /\ get_vocabulary_stats(db_words)["learning"] = 1
    /\ get_vocabulary_stats(db_words)["new"] = 0

\* C23: set_word_translation(w, t) makes get_word(w).translation = t; a word
\* not stored is created at stage NEW, a stored word keeps its stage, and
\* the known and learning sets are the same before and after the call.
C23_TranslationKeepsStage ==
    [][db_last_op' = "set_word_translation" =>
        LET w == db_last_args'[1]
            t == db_last_args'[2]
            before == get_word(db_words, w)
            after == get_word(db_words', w)
        IN  /\ after # NoWord
            /\ after.translation = t
            /\ before = NoWord => after.stage = "new"
            /\ before # NoWord => after.stage = before.stage
            /\ get_known_words_set(db_words') = get_known_words_set(db_words)
            /\ get_learning_words_set(db_words') = get_learning_words_set(db_words)
    ]_vars

C23_Witness ==
    /\ db_last_op = "set_word_translation"
    /\ db_last_args = <<<<CYR_CAP_SHORT_I>>, "t2">>
    /\ get_word(db_words, <<CYR_CAP_SHORT_I>>) # NoWord
    /\ get_word(db_words, <<CYR_CAP_SHORT_I>>).stage = "known"
    /\ get_word(db_words, <<CYR_CAP_SHORT_I>>).translation = "t2"
    /\ get_word(db_words, <<LATIN_CAP_A>>) # NoWord
    /\ get_word(db_words, <<LATIN_CAP_A>>).stage = "new"

-----------------------------------------------------------------------------
(* Properties of the word-info cache                                       *)

\* the content expected for a lookup key: the latest save since the last
\* clear, None when there was none
LatestSaved(k) ==
    IF info_saved[k] = <<>> THEN None ELSE info_saved[k][Len(info_saved[k])]

\* C24: get_word_info(k) returns the content of the most recent
\* save_word_info for the same lookup key (keys compared after lowercasing
\* and trimming surrounding whitespace), None for a key never saved or after
\* clear_word_info_cache; a later save overwrites the earlier content.
C24_WordInfoLatestSave ==
    /\ \A a \in InfoArgs :
          get_word_info(info_cache, a) = LatestSaved(strip(lower(a)))
    /\ info_last_op = "get_word_info" =>
          info_result.value = LatestSaved(strip(lower(info_result.arg)))

C24_Witness ==
    /\ info_last_op = "get_word_info"
    /\ info_result.arg = <<SPACE, LATIN_A>>
    /\ info_result.value = "c2"
    /\ info_saved[<<LATIN_A>>] = <<"c1", "c2">>
    /\ info_saved[<<CYR_SHORT_I, SPACE, LATIN_A>>] = <<>>
    /\ info_cleared = 2

-----------------------------------------------------------------------------
(* Properties of the VocabularyManager                                     *)

\* C25: after any sequence of VocabularyManager operations get_known_words()
\* equals the database's current set of KNOWN words and get_learning_words()
\* its current set of LEARNING words: the cache is never stale.
C25_CacheNeverStale ==
    /\ vm_get_known_words(Vm).result = get_known_words_set(db_words)
    /\ vm_get_learning_words(Vm).result = get_learning_words_set(db_words)
    /\ vm_last_op = "get_known_words" => vm_result = get_known_words_set(db_words)
    /\ vm_last_op = "get_learning_words" => vm_result = get_learning_words_set(db_words)

C25_Witness ==
    /\ vm_last_op = "set_translation"
    /\ vm_known_cache # NoCache
    /\ vm_known_cache[1] = {<<CYR_I>>}
    /\ vm_learning_cache # NoCache
    /\ vm_learning_cache[1] = {<<CYR_UKR_I>>}
    /\ Cardinality(db_words) = 3

\* the stages annotate gives the tokens of text with the sets the manager vm
\* returns
StagesWith(vm) ==
    LET k == vm_get_known_words(vm)
        l == vm_get_learning_words(k.vm)
        toks == annotate(text, k.result, l.result).tokens
    IN  [i \in 1..Len(toks) |-> toks[i].stage]

\* C26: when W is a set of normalized forms of word tokens of the text and
\* bulk_set_stage(W, s) is called, annotating the text with the sets then
\* returned by get_known_words() and get_learning_words() gives stage s to
\* every word token whose normalized form is in W and leaves the stage of
\* every other token unchanged.
C26_StageChangeVisible ==
    [][vm_last_op' = "bulk_set_stage" =>
        LET W == Elements(vm_last_args'[1])
            s == vm_last_args'[2]
            toks == tokenize(text)
            before == StagesWith(Vm)
            after == StagesWith(Manager(db_words', vm_known_cache', vm_learning_cache'))
        IN  W \subseteq {normalized(toks[i]) : i \in WordIndices(toks)} =>
                \A i \in 1..Len(toks) :
                    IF toks[i].is_word /\ normalized(toks[i]) \in W
                    THEN after[i] = s
                    ELSE after[i] = before[i]
    ]_vars

C26_Witness ==
    /\ vm_last_op = "bulk_set_stage"
    /\ vm_last_args = <<<< <<CYR_I>> >>, "known">>
    /\ text = <<CYR_I, ACUTE, NEWLINE, CYR_YI>>
    /\ StagesWith(Vm) = <<"known", "new", "learning">>

\* C28: for every word w and every store state get_stage(w) is the stage
\* annotate gives the single word token of the text w with the manager's
\* current known and learning sets.
C28_GetStageAgreesWithAnnotate ==
    \A w \in VmQueryArgs :
        LET k == vm_get_known_words(Vm)
            l == vm_get_learning_words(k.vm)
            toks == annotate(w, k.result, l.result).tokens
        IN  /\ Len(toks) = 1
            /\ toks[1].is_word
            /\ vm_get_stage(Vm, w).result = toks[1].stage

-----------------------------------------------------------------------------
(* Line-by-line processing against whole-text processing                   *)

\* the lists of a sequence of lists, joined in order
RECURSIVE Flatten(_)
Flatten(ls) == IF ls = <<>> THEN <<>> ELSE Head(ls) \o Flatten(Tail(ls))

\* C27: the word tokens yielded by iter_lines_annotated, flattened in order,
\* are identical (text, start, end, stage) to the word tokens of
\* annotate(text, known, learning) on the whole text, and no word token
\* spans a newline.
C27_LinesAgreeWithWholeText ==
    pc = "iter_lines_done" =>
        LET whole == WordTokens(annotate(text, known_words, learning_words).tokens)
            by_line == WordTokens(Flatten(yielded))
        IN  /\ Len(by_line) = Len(whole)
            /\ \A i \in 1..Len(whole) :
                  /\ by_line[i].text = whole[i].text
                  /\ by_line[i].start = whole[i].start
                  /\ by_line[i].end = whole[i].end
                  /\ by_line[i].stage = whole[i].stage
            /\ \A i \in 1..Len(whole) :
                  \A j \in 1..Len(whole[i].text) : whole[i].text[j] # NEWLINE

C27_Witness ==
    /\ pc = "iter_lines_done"
    /\ Len(yielded) = 2
    /\ Len(WordTokens(Flatten(yielded))) = 2
    /\ WordTokens(Flatten(yielded))[2].start = 2
    /\ WordTokens(Flatten(yielded))[2].stage = "known"
    /\ WordTokens(Flatten(yielded))[1].stage = "new"

\* C29: every token returned by tokenize and every token yielded by
\* iter_lines_annotated is non-empty: start < end and len(text) = end - start.
C29_TokensNonEmpty ==
    LET NonEmpty(t) == /\ t.start < t.end
                       /\ Len(t.text) = t.end - t.start
    IN  /\ pc = "tokenize" => \A i \in 1..Len(tokens) : NonEmpty(tokens[i])
        /\ IterLinesRunning =>
              \A l \in 1..Len(yielded) :
                  \A i \in 1..Len(yielded[l]) : NonEmpty(yielded[l][i])

C29_Witness ==
    /\ pc = "iter_lines_done"
    /\ Len(yielded) = 3
    /\ yielded[1] = <<>>
    /\ yielded[3] = <<>>
    /\ Len(yielded[2]) = 1
    /\ yielded[2][1].start = 1
    /\ yielded[2][1].end = 2

-----------------------------------------------------------------------------
(* Properties of the AnnotatedTextViewer                                   *)

\* C30: after any sequence of set_text, move_cursor, toggle_select_current,
\* clear_selection and select_range_to(t) with 0 <= t < len(words), and of
\* mouse events on the viewer's lines: when the
\* word list is non-empty 0 <= cursor_pos < len(words), every selected index
\* is a valid word index, and set_text resets cursor_pos to 0 and empties
\* the selection.
C30_CursorAndSelectionValid ==
    /\ v_words # <<>> => (0 <= cursor_pos /\ cursor_pos < Len(v_words))
    /\ \A i \in selected_indices : 0 <= i /\ i < Len(v_words)
    /\ v_last_op = "set_text" => (cursor_pos = 0 /\ selected_indices = {})

C30_Witness ==
    /\ v_last_op = "move_cursor"
    /\ Len(v_words) = 3
    /\ v_words[3].line_idx = 1
    /\ cursor_pos = 2
    /\ selected_indices = {0, 1}

====
